----------------------------- MODULE EventChain -----------------------------
(***************************************************************************)
(* The tamper-evident chain over a task record's events                    *)
(* (tools/task-findings.mjs, tools/task-state.mjs): every event carries    *)
(* its index, its parent's hash and its own; commands append only to a     *)
(* record that verifies, and one act adopts an unchained record of the     *)
(* implementation window.  A hash is modelled as what it is a digest of -  *)
(* injective, hence collision-free - and genesis as the empty sequence.    *)
(***************************************************************************)
EXTENDS Naturals, Sequences, SequencesExt

CONSTANTS
    What,           \* what an event says; "done" makes the record terminal
    MaxEvents,      \* bound on the events of a record
    MaxTampers      \* bound on the edits made by hand

(* The creation stamp against CHAIN_CUTOVER and ADOPT_WINDOW_END. *)
Born == {"before", "window", "after", "undated"}

VARIABLES
    events,     \* the record's events: [what, seq, parent_hash, entry_hash, stamped]
    born,       \* recordCreatedAt: the stamp of the first event
    tampers,    \* edits by hand so far
    written,    \* history: the versions commands appended
    adopted     \* history: the versions adopt-chain blessed

chainVars == <<events, born, tampers, written, adopted>>

Genesis == <<>>

Unstamped(what) ==
    [what |-> what, seq |-> 0, parent_hash |-> Genesis, entry_hash |-> Genesis, stamped |-> FALSE]

(* entryHashOf: the event with its own hash removed, over its parent's. *)
EntryHashOf(e) == Append(e.parent_hash, <<e.what, e.seq>>)

StampedOn(e, seq, parent) ==
    LET s == [e EXCEPT !.seq = seq, !.parent_hash = parent, !.stamped = TRUE]
    IN  [s EXCEPT !.entry_hash = EntryHashOf(s)]

(* chainStampEvents: stamps the unstamped, passes the stamped through. *)
Stamp(done, e) ==
    Append(done, IF e.stamped THEN e
                 ELSE StampedOn(e, Len(done), IF done = <<>> THEN Genesis
                                              ELSE Last(done).entry_hash))

ChainStampEvents(list) ==
    LET done[n \in 0 .. Len(list)] == IF n = 0 THEN <<>> ELSE Stamp(done[n - 1], list[n])
    IN  done[Len(list)]

(* chainError = null. *)
ChainVerifies(list) ==
    \A i \in DOMAIN list :
        /\ list[i].stamped
        /\ list[i].seq = i - 1
        /\ list[i].parent_hash = IF i = 1 THEN Genesis ELSE list[i - 1].entry_hash
        /\ list[i].entry_hash = EntryHashOf(list[i])

RecordMustChain == born # "before"

Terminal == \E i \in DOMAIN events : events[i].what = "done"

(* A mutant: the chain is not judged before an append. *)
AppendLawfulUnchained == ~Terminal

(* refuseAppend. *)
AppendLawful == ~Terminal /\ (RecordMustChain => ChainVerifies(events))

(* adoptionRefusal = null. *)
AdoptionLawful == born = "window" /\ ~Terminal /\ \A i \in DOMAIN events : ~events[i].stamped

-----------------------------------------------------------------------------
(* A record of each age: only `new`, after the cutover, stamps. *)
ChainInit ==
    /\ born \in Born
    /\ \E what \in What \ {"done"} :
        events = IF born = "after" THEN ChainStampEvents(<<Unstamped(what)>>) ELSE <<Unstamped(what)>>
    /\ tampers = 0 /\ written = {events} /\ adopted = {}

(* mutateTask: judged and stamped inside the lock. *)
AppendEvent ==
    /\ AppendLawful /\ Len(events) < MaxEvents
    /\ \E what \in What :
        LET next == Append(events, Unstamped(what))
        IN  events' = IF RecordMustChain THEN ChainStampEvents(next) ELSE next
    /\ written' = written \cup {events'}
    /\ UNCHANGED <<born, tampers, adopted>>

(* adopt-chain *)
Adopt ==
    /\ AdoptionLawful /\ Len(events) < MaxEvents
    /\ events' = ChainStampEvents(Append(events, Unstamped("chain-adopt")))
    /\ adopted' = adopted \cup {events'}
    /\ UNCHANGED <<born, tampers, written>>

(* A hand edit or a merge of the file: an event reworded, dropped or put in, *)
(* two swapped, or every stamp stripped.  Nobody recomputes a digest, and    *)
(* the creation stamp stays: forging either is outside the chain's promise.  *)
Tamper ==
    /\ tampers < MaxTampers
    /\ tampers' = tampers + 1
    /\ \/ \E i \in DOMAIN events, what \in What : events' = [events EXCEPT ![i].what = what]
       \/ \E i \in DOMAIN events : i > 1 /\ events' = RemoveAt(events, i)
       \/ \E i \in DOMAIN events, what \in What :
            Len(events) < MaxEvents /\ events' = InsertAt(events, i + 1, Unstamped(what))
       \/ \E i \in DOMAIN events : i > 1 /\ events' = [events EXCEPT ![i] = events[i - 1], ![i - 1] = events[i]]
       \/ events' = [i \in DOMAIN events |-> Unstamped(events[i].what)]
    /\ UNCHANGED <<born, written, adopted>>

ChainNext == AppendEvent \/ Adopt \/ Tamper

ChainSpec == ChainInit /\ [][ChainNext]_chainVars

-----------------------------------------------------------------------------
(* Whatever hands and commands did in between, a record that owes a chain   *)
(* and verifies is a version the machine wrote, or the start of one: no      *)
(* append and no adoption launders an edit.  Only a record of the window     *)
(* may owe its chain to adoption (tools/task-findings.mjs:526,              *)
(* tools/task-state.mjs:666, :761).                                          *)
ChainedIsWritten ==
    (RecordMustChain /\ ChainVerifies(events)) =>
        \E v \in written \cup (IF born = "window" THEN adopted ELSE {}) : IsPrefix(events, v)
=============================================================================
