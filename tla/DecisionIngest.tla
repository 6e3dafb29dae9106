-------------------------- MODULE DecisionIngest ---------------------------
(***************************************************************************)
(* POST /v1/decision/ingest: each request finds or opens the scene of its  *)
(* context, is observed on the kernel's hash chain, counted in the scene's *)
(* runtime state, recorded as a snapshot and a learning sample, and may    *)
(* close the scene with a summary (infra/api/routes/decision, core/scene,  *)
(* infra/storage, tools/observe).                                          *)
(*                                                                         *)
(* The handler runs in a pool of threads without a lock: a step is one     *)
(* access to what requests share.  The index of scenes is kept in memory   *)
(* and in a file, the runtime state in memory only, the rest in files that *)
(* are appended to.  The process may crash and restart at any point; a     *)
(* line that it was writing is then unreadable, if it is there.            *)
(* A scene has the name of the request that opened it.                     *)
(***************************************************************************)
EXTENDS Naturals, Sequences, FiniteSets

CONSTANTS
    Request,      \* each is handled once
    Context,
    ContextOf,    \* the context that make_context_key gives a request
    CloseStreak,  \* low decisions in a row that close a scene: 3 in the code
    Threads,      \* requests that are handled at once
    MaxCrashes,
    Null, Torn

IngestAssumption ==
    /\ ContextOf \in [Request -> Context] /\ Null \notin Request
    /\ Torn \notin [prev : Seq(Request), payload : Request]
    /\ CloseStreak \in Nat \ {0} /\ Threads \in Nat /\ MaxCrashes \in Nat

INSTANCE HashChain

Entry   == [scene: Request, status: {"OPEN", "ACTIVE"}]
Counted == [low: Nat, total: Nat]

PC == {"start", "open", "promote", "saving", "observe", "chain", "event", "get", "update",
       "snapshot", "decide", "clear", "cleared", "pop", "done", "failed"}
\* Handling has begun and not ended.
Running == PC \ {"start", "done", "failed"}

VARIABLES
    index,      \* FileBackedSceneRepo._index, by context
    disk,       \* active_index.json
    tmp,        \* whether active_index.json.tmp is there
    runtime,    \* scene_state_map: the request whose state object a scene has
    object,     \* the SceneRuntimeState objects, by the request that made them
    chain,      \* lock3_chain.jsonl
    observed,   \* the requests that events.jsonl has an event of
    snapshots,  \* <<request, scene>>: the lines of decision_snapshots.jsonl
    summaries,  \* <<request that closed it, scene, total_decisions>>
    samples,    \* the requests that have a learning sample
    editing,    \* the samples that update_outcome has read and will write back
    pc, scene,  \* each request's next step, and its scene
    row,        \* the chain row that it is about to append
    state,      \* the state object that it updates
    overlapped, crashes  \* history: requests ran at once; crashes so far

memory == <<index, runtime, object>>
files  == <<disk, chain, observed, snapshots, summaries>>
local  == <<pc, scene, row, state>>
learn  == <<samples, editing>>
vars   == <<memory, tmp, files, local, learn, overlapped, crashes>>

Fresh == [low |-> 0, total |-> 0]
Init ==
    /\ index = [k \in Context |-> Null] /\ disk = index /\ tmp = FALSE
    /\ runtime = [s \in Request |-> Null] /\ object = [r \in Request |-> Fresh]
    /\ chain = <<>> /\ observed = {} /\ snapshots = {} /\ summaries = {}
    /\ samples = {} /\ editing = Null
    /\ pc = [r \in Request |-> "start"] /\ scene = [r \in Request |-> Null]
    /\ row = [r \in Request |-> Null] /\ state = [r \in Request |-> r]
    /\ overlapped = FALSE /\ crashes = 0

-----------------------------------------------------------------------------
(* An operator that nothing uses, placed just before the one it is named   *)
(* after, is that operator's faulty form for the mutation checks.          *)

At(r, label) == pc[r] = label
Goto(r, label) == pc' = [pc EXCEPT ![r] = label]
KeyOf(r) == ContextOf[r]

(* scenes.get_active_by_context                                            *)
FindScene(r) ==
    LET found == index[KeyOf(r)] IN
    /\ At(r, "start") /\ Cardinality({q \in Request : pc[q] \in Running}) < Threads
    /\ scene' = [scene EXCEPT ![r] = IF found = Null THEN r ELSE found.scene]
    /\ Goto(r, IF found = Null THEN "open"
               ELSE IF found.status = "OPEN" THEN "promote" ELSE "observe")
    /\ overlapped' = (overlapped \/ \E q \in Request \ {r} : pc[q] \in Running)
    /\ UNCHANGED <<memory, tmp, files, row, state, learn, crashes>>

(* upsert_active, of a new scene or of the one that was found, and the     *)
(* truncation of the .tmp file that _save begins with.                     *)
Upsert(r, from, status) ==
    /\ At(r, from)
    /\ index' = [index EXCEPT ![KeyOf(r)] = [scene |-> scene[r], status |-> status]]
    /\ tmp' = TRUE
    /\ Goto(r, "saving")
    /\ UNCHANGED <<runtime, object, files, scene, row, state, learn, overlapped, crashes>>
OpenScene(r) == Upsert(r, "open", "OPEN")
PromoteScene(r) == Upsert(r, "promote", "ACTIVE")

(* The rest of _save: the index is dumped into the .tmp file and that is   *)
(* renamed.  Two savers share the file: the first may publish what the     *)
(* other has written half, and the second finds nothing to rename, raises, *)
(* and has written into the published file.                                *)
Saving(q) == pc[q] \in {"saving", "cleared"}
Unloadable == [k \in Context |-> Null]
SaveIndex(r) ==
    LET alone == tmp /\ \A q \in Request \ {r} : ~Saving(q)
        next  == IF At(r, "saving") THEN "observe" ELSE "pop" IN
    /\ Saving(r)
    /\ disk' \in IF alone THEN {index} ELSE {index, Unloadable}
    /\ tmp' = FALSE
    /\ Goto(r, IF tmp THEN next ELSE "failed")
    /\ UNCHANGED <<memory, chain, observed, snapshots, summaries, scene, row, state, learn,
                   overlapped, crashes>>

-----------------------------------------------------------------------------
(* observe_event: the chain is read and verified from its first line, and  *)
(* the handler raises if any is wrong.                                     *)
ObserveUnverified(r) ==
    /\ At(r, "observe") /\ Readable(chain)
    /\ row' = [row EXCEPT ![r] = [prev |-> LastHash(chain), payload |-> r]]
    /\ Goto(r, "chain")
    /\ UNCHANGED <<memory, tmp, files, scene, state, learn, overlapped, crashes>>
Observe(r) ==
    /\ At(r, "observe")
    /\ IF Linked(chain)
         THEN /\ row' = [row EXCEPT ![r] = [prev |-> LastHash(chain), payload |-> r]]
              /\ Goto(r, "chain")
         ELSE row' = row /\ Goto(r, "failed")
    /\ UNCHANGED <<memory, tmp, files, scene, state, learn, overlapped, crashes>>

(* The files are closed, and so written, in the reverse of the order in    *)
(* which they were opened: the chain first.                                *)
WriteChain(r) ==
    /\ At(r, "chain")
    /\ chain' = Append(chain, row[r])
    /\ Goto(r, "event")
    /\ UNCHANGED <<memory, tmp, disk, observed, snapshots, summaries, scene, row, state, learn,
                   overlapped, crashes>>
WriteEvent(r) ==
    /\ At(r, "event")
    /\ observed' = observed \cup {r}
    /\ Goto(r, "get")
    /\ UNCHANGED <<memory, tmp, disk, chain, snapshots, summaries, scene, row, state, learn,
                   overlapped, crashes>>

-----------------------------------------------------------------------------
(* scene_state_map.get(...) or SceneRuntimeState(): the state object that  *)
(* the request will update is the shared one, or a new one of its own.     *)
GetState(r) ==
    /\ At(r, "get")
    /\ state' = [state EXCEPT ![r] = IF runtime[scene[r]] = Null THEN r ELSE runtime[scene[r]]]
    /\ Goto(r, "update")
    /\ UNCHANGED <<memory, tmp, files, scene, row, learn, overlapped, crashes>>

(* update_runtime_state, by a decision of low or of higher severity.       *)
Updated(st, low) == [low |-> IF low THEN st.low + 1 ELSE 0, total |-> st.total + 1]
UpdateState(r) ==
    LET st == state[r] IN
    /\ At(r, "update")
    /\ \E low \in BOOLEAN : object' = [object EXCEPT ![st] = Updated(object[st], low)]
    /\ runtime' = [runtime EXCEPT ![scene[r]] = st]
    /\ Goto(r, "snapshot")
    /\ UNCHANGED <<index, tmp, files, scene, row, state, learn, overlapped, crashes>>
ShouldClose(st) == object[st].low >= CloseStreak /\ object[st].total >= CloseStreak

(* The snapshot is appended, then the sample; a sample that cannot be      *)
(* appended is passed over.                                                *)
Snapshot(r) ==
    /\ At(r, "snapshot")
    /\ snapshots' = snapshots \cup {<<r, scene[r]>>}
    /\ samples' \in {samples, samples \cup {r}}
    /\ Goto(r, "decide")
    /\ UNCHANGED <<memory, tmp, disk, chain, observed, summaries, scene, row, state, editing,
                   overlapped, crashes>>

-----------------------------------------------------------------------------
(* Who closed which scene, and how many decisions it counted.              *)
SummaryOf(r) == <<r, scene[r], object[state[r]].total>>

(* The close, forced or of the scene's own state.                          *)
Summarise(r) ==
    /\ At(r, "decide")
    /\ summaries' = summaries \cup {SummaryOf(r)}
    /\ Goto(r, "clear")
    /\ UNCHANGED <<memory, tmp, disk, chain, observed, snapshots, scene, row, state, learn,
                   overlapped, crashes>>
KeepOpen(r) ==
    /\ At(r, "decide") /\ ~ShouldClose(state[r])
    /\ Goto(r, "done")
    /\ UNCHANGED <<memory, tmp, files, scene, row, state, learn, overlapped, crashes>>

(* clear_active forgets whatever scene the context has.                    *)
ClearActive(r) ==
    /\ At(r, "clear")
    /\ IF index[KeyOf(r)] = Null
         THEN Goto(r, "pop") /\ UNCHANGED <<index, tmp>>
         ELSE /\ index' = [index EXCEPT ![KeyOf(r)] = Null]
              /\ tmp' = TRUE
              /\ Goto(r, "cleared")
    /\ UNCHANGED <<runtime, object, files, scene, row, state, learn, overlapped, crashes>>
PopNothing(r) ==
    /\ At(r, "pop")
    /\ Goto(r, "done")
    /\ UNCHANGED <<memory, tmp, files, scene, row, state, learn, overlapped, crashes>>
PopState(r) ==
    /\ At(r, "pop")
    /\ runtime' = [runtime EXCEPT ![scene[r]] = Null]
    /\ Goto(r, "done")
    /\ UNCHANGED <<index, object, tmp, files, scene, row, state, learn, overlapped, crashes>>

-----------------------------------------------------------------------------
(* update_outcome: the file is read, and later replaced by what was read   *)
(* with one sample's outcome set.                                          *)
OutcomeRead ==
    /\ editing = Null /\ samples # {}
    /\ editing' = samples
    /\ UNCHANGED <<memory, tmp, files, local, samples, overlapped, crashes>>
OutcomeReplace ==
    /\ editing # Null
    /\ samples' = editing /\ editing' = Null
    /\ UNCHANGED <<memory, tmp, files, local, overlapped, crashes>>

(* The process dies and starts again: the index is what its file holds.    *)
Crash ==
    /\ crashes < MaxCrashes
    /\ chain' \in {chain} \cup
                  {Append(chain, Torn) : r \in {q \in Request : pc[q] = "chain"}}
    /\ index' = disk
    /\ runtime' = [s \in Request |-> Null]
    /\ pc' = [r \in Request |-> IF pc[r] \in Running THEN "failed" ELSE pc[r]]
    /\ editing' = Null
    /\ crashes' = crashes + 1
    /\ UNCHANGED <<object, tmp, disk, observed, snapshots, summaries, scene, row, state,
                   samples, overlapped>>

Handle(r) ==
    \/ FindScene(r) \/ OpenScene(r) \/ PromoteScene(r) \/ SaveIndex(r)
    \/ Observe(r) \/ WriteChain(r) \/ WriteEvent(r)
    \/ GetState(r) \/ UpdateState(r) \/ Snapshot(r)
    \/ Summarise(r) \/ KeepOpen(r) \/ ClearActive(r) \/ PopState(r)
Next == (\E r \in Request : Handle(r)) \/ OutcomeRead \/ OutcomeReplace \/ Crash

Spec == Init /\ [][Next]_vars

-----------------------------------------------------------------------------
(* Properties.                                                             *)

SnapshotsOf(s) == {q \in Request : <<q, s>> \in snapshots}

(* However requests overlap and the process crashes, a recorded decision   *)
(* has its event and its row on the chain, and the row was hashed onto a   *)
(* part of the file that verifies: a forked or torn chain ends the record. *)
RowOf(r, i) ==
    /\ chain[i] # Torn /\ chain[i].payload = r
    /\ \E n \in 0..(i - 1) :
        Linked(SubSeq(chain, 1, n)) /\ chain[i].prev = LastHash(SubSeq(chain, 1, n))
SnapshotsExtendTheChain ==
    \A x \in snapshots :
        x[1] \in observed /\ \E i \in 1..Len(chain) : RowOf(x[1], i)

(* No summary counts a decision of its scene that was not observed first,  *)
(* though the counts are updated by whoever comes and outlive no crash.    *)
ObservedFor(s) == {q \in observed : scene[q] = s}
SummaryCountsObserved ==
    \A x \in summaries : x[3] <= Cardinality(ObservedFor(x[2]))

(* Requests that come one at a time close a scene once, with a summary     *)
(* that counts its snapshots, and leave nothing of it to the next one.     *)
SerialScenesCloseOnce ==
    ~overlapped /\ crashes = 0 =>
        \A x \in summaries :
            /\ x[3] = Cardinality(SnapshotsOf(x[2]))
            /\ \A y \in summaries : y[2] = x[2] => y = x
            /\ pc[x[1]] = "done" =>
                runtime[x[2]] = Null /\ \A k \in Context :
                    index[k] # Null => index[k].scene # x[2]

(* What both say of the summaries that close a scene.                      *)
SummariesAddUp == SummaryCountsObserved /\ SerialScenesCloseOnce
=============================================================================
