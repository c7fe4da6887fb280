----------------------------- MODULE EventStore -----------------------------
(***************************************************************************)
(* The append-only audit log of the pilot and its projection: appendEvent, *)
(* assertReferencesKnown and activeEvents (src/pilot/event-store.ts).      *)
(*                                                                         *)
(* An event is named by its position; its content is a block, the event it *)
(* supersedes (0: none) and, for EVENT_INVALIDATED, the event it           *)
(* invalidates (0: any other event).  The hash of the event referred to    *)
(* always matches here; a mismatch is refused like an unknown reference.   *)
(***************************************************************************)
EXTENDS Naturals, Sequences, FiniteSets

CONSTANTS LogBlocks, MaxLog   \* MaxLog bounds the length of the log

ASSUME EventStoreAssumption == MaxLog \in Nat

VARIABLE eventLog
VARIABLE lastAppend  \* what the last appendEvent answered

eventVars == <<eventLog, lastAppend>>

LoggedEvent == [block : LogBlocks, sequence : 1 .. MaxLog,
                supersedes : 0 .. MaxLog, invalidates : 0 .. MaxLog]

IsInvalidation(i) == eventLog[i].invalidates # 0

(* assertReferencesKnown, for an event to be placed at position i. *)
ReferencesKnown(i, event) == event.supersedes < i /\ event.invalidates < i

ExpectedSequence(block) ==
    Cardinality({i \in DOMAIN eventLog : eventLog[i].block = block}) + 1

(***************************************************************************)
(* appendEvent: the event's identity is new, or that of event `id`.        *)
(***************************************************************************)
AppendEvent(id, event) ==
    IF id \in DOMAIN eventLog
    THEN /\ lastAppend' = IF eventLog[id] = event THEN "repeated" ELSE "conflict"
         /\ UNCHANGED eventLog
    ELSE IF \/ event.sequence # ExpectedSequence(event.block)
            \/ ~ReferencesKnown(id, event)
    THEN lastAppend' = "refused" /\ UNCHANGED eventLog
    ELSE lastAppend' = "appended" /\ eventLog' = Append(eventLog, event)

(***************************************************************************)
(* activeEvents: one pass from the end collects what valid invalidations   *)
(* take out, a second one from the beginning what is superseded.           *)
(***************************************************************************)

\* Mutant: the invalidations are applied from the first one on.
InvalidatedForwards ==
    LET inactive[i \in 0 .. Len(eventLog)] ==
            IF i = 0 THEN {}
            ELSE IF IsInvalidation(i)
                 THEN inactive[i - 1] \cup {i}
                        \cup (IF i \in inactive[i - 1] THEN {} ELSE {eventLog[i].invalidates})
                 ELSE inactive[i - 1]
    IN inactive[Len(eventLog)]

\* Event i in the pass from the end, when the later ones took out `inactive`.
TakenOut(inactive, i) ==
    IF IsInvalidation(i)
    THEN inactive \cup {i} \cup (IF i \in inactive THEN {} ELSE {eventLog[i].invalidates})
    ELSE inactive

InvalidatedFrom[i \in 1 .. Len(eventLog) + 1] ==
    IF i > Len(eventLog) THEN {} ELSE TakenOut(InvalidatedFrom[i + 1], i)

Invalidated == InvalidatedFrom[1]

\* Event i in the pass from the beginning.
Superseding(inactive, i) ==
    IF i \notin inactive /\ eventLog[i].supersedes # 0
    THEN inactive \cup {eventLog[i].supersedes} ELSE inactive

InactiveUpTo[i \in 0 .. Len(eventLog)] ==
    IF i = 0 THEN Invalidated ELSE Superseding(InactiveUpTo[i - 1], i)

ActiveEvents == DOMAIN eventLog \ InactiveUpTo[Len(eventLog)]

-----------------------------------------------------------------------------
EventInit == eventLog = <<>> /\ lastAppend = "none"

EventNext ==
    \/ \E id \in DOMAIN eventLog : \E s \in {eventLog[id].supersedes, id} :
          AppendEvent(id, [eventLog[id] EXCEPT !.supersedes = s])
    \/ /\ Len(eventLog) < MaxLog
       /\ \E block \in LogBlocks, s, v \in 0 .. Len(eventLog) + 1 :
             \E n \in {1, ExpectedSequence(block)} :
                AppendEvent(Len(eventLog) + 1, [block |-> block, sequence |-> n,
                                                supersedes |-> s, invalidates |-> v])

EventSpec == EventInit /\ [][EventNext]_eventVars
-----------------------------------------------------------------------------
(* Type invariant of the audit log. *)
EventTypeOK ==
    /\ eventLog \in Seq(LoggedEvent) /\ Len(eventLog) <= MaxLog
    /\ lastAppend \in {"none", "appended", "repeated", "conflict", "refused"}

(* The events that an invalidation in force takes out: the one set in      *)
(* which an event is void exactly when an invalidation that is not itself  *)
(* void names it.                                                          *)
Void == CHOOSE V \in SUBSET DOMAIN eventLog :
           \A i \in DOMAIN eventLog :
              i \in V <=> \E j \in DOMAIN eventLog \ V : eventLog[j].invalidates = i

(* The projection keeps exactly the events that no invalidation in force   *)
(* and no event in force supersedes, however corrections of corrections    *)
(* are nested, and each block's log is numbered without a gap              *)
(* (event-store.ts activeEvents, assertValidLog).                          *)
ProjectionIsExact ==
    /\ ActiveEvents = {i \in DOMAIN eventLog :
                         /\ i \notin Void /\ ~IsInvalidation(i)
                         /\ \A j \in DOMAIN eventLog :
                               eventLog[j].supersedes = i => j \in Void \/ IsInvalidation(j)}
    /\ \A i \in DOMAIN eventLog :
          eventLog[i].sequence =
             Cardinality({j \in 1 .. i : eventLog[j].block = eventLog[i].block})
=============================================================================
