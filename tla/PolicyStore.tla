---------------------------- MODULE PolicyStore ----------------------------
(***************************************************************************)
(* Policy learning: the proposals file that the converter rewrites, the    *)
(* approvals log, and the versioned policy files to which approved patches *)
(* are applied (core/B_learning, core/policy_store, jobs).                 *)
(*                                                                         *)
(* Everything is a file and there is no lock.  A step is one read or one   *)
(* write of one file; the operators' commands and the converter interleave *)
(* and may stop at any point.  A command that is refused changes nothing.  *)
(* Approvals are append-only lines and only the set of approvers counts;   *)
(* hashes stand for the policies they are of; a policy gives each channel  *)
(* a threshold level, and a patch replaces one channel's.                  *)
(***************************************************************************)
EXTENDS Integers, FiniteSets

CONSTANTS
    Person,        \* reviewers and appliers: each runs one command at a time
    Proposal,      \* ids of the raw proposals
    Channel,
    ChannelOf,     \* the channel a proposal tunes
    Delta,         \* the direction it tunes it in
    Top,           \* levels are 0..Top
    InitialLevel,
    MaxVersion,    \* the last version number that VERSION_RE matches
    MinApprovals,
    Strategy,      \* those that apply is called with
    Null, Empty, Garbled

ASSUME PolicyAssumption ==
    /\ ChannelOf \in [Proposal -> Channel] /\ Delta \in [Proposal -> Int]
    /\ Top \in Nat /\ InitialLevel \in 0..Top
    /\ MaxVersion \in Nat \ {0} /\ MinApprovals \in Nat
    /\ IsFiniteSet(Person)

Version == 1..(MaxVersion + 1)
Policy  == [Channel -> 0..Top]
Initial == [ch \in Channel |-> InitialLevel]

\* A file's content: truncated, partly overwritten, or a policy.  Null: no such file.
Unreadable == {Empty, Garbled}
Content == Policy \cup Unreadable \cup {Null}

ASSUME ContentAssumption ==
    Null # Empty /\ Null # Garbled /\ Empty # Garbled /\ Policy \cap {Null, Empty, Garbled} = {}

\* base: policy_target_sha256; level: the value in patch_ops.
Converted == [base: Policy, level: 0..Top]
Receipt   == [proposal: Proposal, before: Version, old: Policy, after: Version, new: Policy]
Session   == [proposal: Proposal \cup {Null}, before: Version, old: Policy, after: Version,
              new: Policy]
NoSession == [proposal |-> Null, before |-> 1, old |-> Initial, after |-> 1, new |-> Initial]

PC == {"idle", "latest", "find", "version", "open", "write", "late", "lost", "replace",
       "receipt", "record"}
\* Between reading the latest version and publishing the next one.
Saving == {"find", "version", "open", "write", "late", "lost", "replace"}

VARIABLES
    file,        \* policy_vNNNN.json, by version
    tmp,         \* policy_vNNNN.json.tmp
    proposals,   \* proposals.jsonl, by id
    todo,        \* what the running converter has still to convert
    draft,       \* what it has computed and not yet appended
    approvals,   \* <<proposal, reviewer>>: the PENDING lines of approvals.jsonl
    receipts,    \* the receipt files
    applied,     \* the receipts that an APPLIED line of approvals.jsonl names
    pc, ctx,     \* what each person's command does next, and what it has read
    overlapped   \* history: two commands have been Saving at once

store == <<file, tmp>>
job   == <<proposals, todo, draft>>
trail == <<receipts, applied>>
vars  == <<store, job, approvals, trail, pc, ctx, overlapped>>

Init ==
    /\ file = [v \in Version |-> IF v = 1 THEN Initial ELSE Null]
    /\ tmp = [v \in Version |-> Null]
    /\ proposals = [p \in Proposal |-> Null] /\ todo = {} /\ draft = Null
    /\ approvals = {} /\ receipts = {} /\ applied = {}
    /\ pc = [c \in Person |-> "idle"] /\ ctx = [c \in Person |-> NoSession]
    /\ overlapped = FALSE

-----------------------------------------------------------------------------
(* An operator that nothing uses, placed just before the one it is named   *)
(* after, is that operator's faulty form for the mutation checks.          *)

Goto(c, label) == pc' = [pc EXCEPT ![c] = label]
Done(c) == Goto(c, "idle") /\ ctx' = [ctx EXCEPT ![c] = NoSession]

(* PolicyStore.latest returns v: the highest version that the pattern      *)
(* lists.  It raises when there is none or its text does not parse.        *)
IsLatest(v) ==
    /\ file[v] \notin Unreadable \cup {Null}
    /\ \A w \in (v + 1)..MaxVersion : file[w] = Null
Listed == 1..MaxVersion

Clamp(x) == IF x < 0 THEN 0 ELSE IF x > Top THEN Top ELSE x

ApproversOf(p) == {c \in Person : <<p, c>> \in approvals}
HasQuorum(p) == Cardinality(ApproversOf(p)) >= MinApprovals

-----------------------------------------------------------------------------
(* jobs/convert_policy_patch_proposals: the output is deleted, then each   *)
(* raw proposal is valued against the policy of the moment and appended.   *)
ConvertStart ==
    /\ todo = {} /\ draft = Null
    /\ proposals' = [p \in Proposal |-> Null]
    /\ todo' = Proposal
    /\ UNCHANGED <<store, draft, approvals, trail, pc, ctx, overlapped>>

ConvertRead(p) ==
    /\ p \in todo /\ draft = Null
    /\ \E v \in Listed :
        /\ IsLatest(v)
        /\ draft' = [id |-> p, base |-> file[v],
                      level |-> Clamp(file[v][ChannelOf[p]] + Delta[p])]
    /\ UNCHANGED <<store, proposals, todo, approvals, trail, pc, ctx, overlapped>>

ConvertAppend ==
    /\ draft # Null
    /\ proposals' = [proposals EXCEPT ![draft.id] =
                        [base |-> draft.base, level |-> draft.level]]
    /\ todo' = todo \ {draft.id}
    /\ draft' = Null
    /\ UNCHANGED <<store, approvals, trail, pc, ctx, overlapped>>

ConvertStops ==
    /\ todo # {}
    /\ todo' = {} /\ draft' = Null
    /\ UNCHANGED <<store, proposals, approvals, trail, pc, ctx, overlapped>>

-----------------------------------------------------------------------------
(* approve_only: the proposal's id is what the line names.                 *)
Approve(c, p) ==
    /\ pc[c] = "idle"
    /\ proposals[p] # Null
    /\ approvals' = approvals \cup {<<p, c>>}
    /\ UNCHANGED <<store, job, trail, pc, ctx, overlapped>>

(* apply_after_approvals: one action per file that it reads or writes.     *)

ApplyUncounted(c, p) ==
    /\ pc[c] = "idle"
    /\ MinApprovals < 2 \/ c \notin ApproversOf(p)
    /\ Goto(c, "latest")
    /\ ctx' = [ctx EXCEPT ![c].proposal = p]
    /\ UNCHANGED <<store, job, approvals, trail, overlapped>>
ApplyCheck(c, p) ==
    /\ pc[c] = "idle"
    /\ MinApprovals < 2 \/ c \notin ApproversOf(p)
    /\ HasQuorum(p)
    /\ Goto(c, "latest")
    /\ ctx' = [ctx EXCEPT ![c].proposal = p]
    /\ UNCHANGED <<store, job, approvals, trail, overlapped>>

ApplyLatest(c) ==
    /\ pc[c] = "latest"
    /\ Goto(c, "find")
    /\ \E v \in Listed :
        /\ IsLatest(v)
        /\ ctx' = [ctx EXCEPT ![c].before = v, ![c].old = file[v]]
    /\ overlapped' = (overlapped \/ \E d \in Person \ {c} : pc[d] \in Saving)
    /\ UNCHANGED <<store, job, approvals, trail>>

(* find_proposal and dry_run_validate.  A patch that changes nothing goes  *)
(* straight to its receipt.                                                *)
Patched(x) == [x.old EXCEPT ![ChannelOf[x.proposal]] = proposals[x.proposal].level]
Found(c) ==
    LET new == Patched(ctx[c]) IN
    /\ pc[c] = "find" /\ proposals[ctx[c].proposal] # Null
    /\ Goto(c, IF new = ctx[c].old THEN "receipt" ELSE "version")
    /\ ctx' = [ctx EXCEPT ![c].new = new, ![c].after = ctx[c].before]
    /\ UNCHANGED <<store, job, approvals, trail, overlapped>>

ApplyFind(c) ==
    /\ Found(c)
    /\ \E s \in Strategy : proposals[ctx[c].proposal].base # ctx[c].old => s # "reject"

(* save_new_version reads the latest version again.                        *)
SaveOverLatest(c) ==
    /\ pc[c] = "version"
    /\ Goto(c, "open")
    /\ \E v \in Listed : IsLatest(v) /\ ctx' = [ctx EXCEPT ![c].after = v]
    /\ UNCHANGED <<store, job, approvals, trail, overlapped>>
SaveVersion(c) ==
    /\ pc[c] = "version"
    /\ Goto(c, "open")
    /\ \E v \in Listed : IsLatest(v) /\ ctx' = [ctx EXCEPT ![c].after = v + 1]
    /\ UNCHANGED <<store, job, approvals, trail, overlapped>>

(* _save_json opens the .tmp file of that version, truncating it.          *)
SaveOpen(c) ==
    /\ pc[c] = "open"
    /\ tmp' = [tmp EXCEPT ![ctx[c].after] = Empty]
    /\ Goto(c, "write")
    /\ UNCHANGED <<file, job, approvals, trail, ctx, overlapped>>

(* The bytes go out when it is closed.  Over another writer's longer text  *)
(* they leave its tail behind.                                             *)
Over(old, new) == IF old \in {Empty, new} THEN {new} ELSE {new, Garbled}

(* By then another command may have renamed the file: "late" writes into a *)
(* published version, "lost" into one that was since replaced.             *)
SaveWrite(c) ==
    LET v == ctx[c].after IN
    /\ \/ /\ pc[c] = "write"
          /\ \E x \in Over(tmp[v], ctx[c].new) : tmp' = [tmp EXCEPT ![v] = x]
          /\ UNCHANGED file
       \/ /\ pc[c] = "late"
          /\ \E x \in Over(file[v], ctx[c].new) : file' = [file EXCEPT ![v] = x]
          /\ UNCHANGED tmp
       \/ pc[c] = "lost" /\ UNCHANGED store
    /\ Goto(c, "replace")
    /\ UNCHANGED <<job, approvals, trail, ctx, overlapped>>

(* os.replace moves whatever has that name now; it raises if nothing has.  *)
SaveReplace(c) ==
    LET v == ctx[c].after
        Renamed(d) == CASE ctx[d].after # v     -> pc[d]
                        [] pc[d] = "write" -> "late"
                        [] pc[d] = "late"  -> "lost"
                        [] OTHER           -> pc[d]
    IN
    /\ pc[c] = "replace" /\ tmp[v] # Null
    /\ file' = [file EXCEPT ![v] = tmp[v]]
    /\ tmp' = [tmp EXCEPT ![v] = Null]
    /\ pc' = [d \in Person |-> IF d = c THEN "receipt" ELSE Renamed(d)]
    /\ UNCHANGED <<job, approvals, trail, ctx, overlapped>>

ReceiptOf(x) == [proposal |-> x.proposal, before |-> x.before, old |-> x.old,
                 after |-> x.after, new |-> x.new]

WriteReceiptEarly(c) ==
    /\ pc[c] \in {"replace", "receipt"}
    /\ receipts' = receipts \cup {ReceiptOf(ctx[c])}
    /\ Goto(c, "record")
    /\ UNCHANGED <<store, job, approvals, applied, ctx, overlapped>>
WriteReceipt(c) ==
    /\ pc[c] = "receipt"
    /\ receipts' = receipts \cup {ReceiptOf(ctx[c])}
    /\ Goto(c, "record")
    /\ UNCHANGED <<store, job, approvals, applied, ctx, overlapped>>

WriteApplied(c) ==
    /\ pc[c] = "record"
    /\ applied' = applied \cup {ReceiptOf(ctx[c])}
    /\ Done(c)
    /\ UNCHANGED <<store, job, approvals, receipts, overlapped>>

(* The process stops, or the step it was about to take raises.             *)
CommandStops(c) ==
    /\ pc[c] # "idle"
    /\ Done(c)
    /\ UNCHANGED <<store, job, approvals, trail, overlapped>>

-----------------------------------------------------------------------------
Next ==
    \/ ConvertStart \/ ConvertAppend \/ ConvertStops
    \/ \E p \in Proposal : ConvertRead(p)
    \/ \E c \in Person, p \in Proposal : Approve(c, p) \/ ApplyCheck(c, p)
    \/ \E c \in Person :
        \/ ApplyLatest(c) \/ ApplyFind(c)
        \/ SaveVersion(c) \/ SaveOpen(c) \/ SaveWrite(c) \/ SaveReplace(c)
        \/ WriteReceipt(c) \/ WriteApplied(c) \/ CommandStops(c)

Spec == Init /\ [][Next]_vars

-----------------------------------------------------------------------------
TypeOK ==
    /\ file \in [Version -> Content] /\ tmp \in [Version -> Content]
    /\ proposals \in [Proposal -> Converted \cup {Null}]
    /\ todo \subseteq Proposal
    /\ draft \in [id: Proposal, base: Policy, level: 0..Top] \cup {Null}
    /\ approvals \subseteq Proposal \X Person
    /\ receipts \subseteq Receipt /\ applied \subseteq receipts
    /\ pc \in [Person -> PC] /\ ctx \in [Person -> Session]
    /\ overlapped \in BOOLEAN

(* However the commands race, die and overwrite each other: a channel that *)
(* no proposal with enough approvers is about keeps its initial level in   *)
(* every version and in every file on its way to become one.               *)
UnapprovedUntouched ==
    \A ch \in Channel :
        (\A p \in Proposal : ChannelOf[p] = ch => ~HasQuorum(p)) =>
            \A v \in Version : \A x \in {file[v], tmp[v]} :
                x \in Policy => x[ch] = InitialLevel

(* Under strategy "reject" a patch moves its channel by one step from the  *)
(* policy it was applied to, whenever the converter rewrote the proposal   *)
(* and whichever value the approvers had seen: stale values are refused.   *)
RejectMovesOneStep ==
    Strategy = {"reject"} => \A r \in receipts :
        r.new = [r.old EXCEPT ![ChannelOf[r.proposal]] = Clamp(@ + Delta[r.proposal])]

(* When commands never overlap, wherever they are stopped, a receipt tells *)
(* what is in the files that it names, a change made the very next         *)
(* version, and an APPLIED line has its receipt.  Past MaxVersion versions *)
(* are overwritten and this is lost.                                       *)
SerialReceiptsAccurate ==
    ~overlapped => \A r \in receipts \cup applied :
        /\ r.after \in {r.before, r.before + 1}
        /\ file[r.before] = r.old
        /\ r.after <= MaxVersion => file[r.after] = r.new

Tuned == {ch \in Channel : \E p \in Proposal : ChannelOf[p] = ch /\ HasQuorum(p)}
Log == INSTANCE PolicyLog WITH history <- [v \in 1..MaxVersion |-> file[v]],
                               open <- Tuned, Absent <- Null

(* As long as commands do not overlap, every step of the store is a step   *)
(* of PolicyLog: published versions can be read, and are a log of approved *)
(* changes.                                                                *)
SerialStoreIsALog == [][~overlapped' => Log!Step]_vars
=============================================================================
