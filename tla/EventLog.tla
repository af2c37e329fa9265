------------------------------ MODULE EventLog ------------------------------
(***************************************************************************)
(* What the ReplayEngine makes of the events of a session.  An event is a  *)
(* record of its kind, its peer, the type, id and trial of its message's   *)
(* header, the message that one replies to, and the trial of the session   *)
(* at the time.  No two events are equal, so a log is a set: the order of  *)
(* its lines only orders the timelines.                                    *)
(***************************************************************************)
EXTENDS Naturals, FiniteSets

CONSTANT None  \* an event without a message, a header or session without the field

Event(kind, peer, type, msg, replyTo, trial, session) ==
    [kind |-> kind, peer |-> peer, type |-> type, msg |-> msg, replyTo |-> replyTo,
     trial |-> trial, session |-> session]

(* _trial_id_for_event: the header's trial, or else the session's. *)
TrialOf(e) == IF e.trial # None THEN e.trial ELSE e.session

TrialTimeline(log, t) == {e \in log : TrialOf(e) = t}

MessageTimeline(log, m) == {e \in log : e.msg = m \/ e.replyTo = m}

Sends(log, m) == {e \in log : e.kind = "send" /\ e.msg = m}

Acks(log, m) == {e \in MessageTimeline(log, m) : e.type = "ACK"}

(* The trials as ReplayEngine.summary collects them, and as the recorder    *)
(* did, event by event: from the header and from the session.               *)
ReplayedTrials(log) == {TrialOf(e) : e \in log} \ {None}

TrialsIn(e) == {e.trial, e.session} \ {None}
=============================================================================
