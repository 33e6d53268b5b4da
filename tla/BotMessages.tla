---------------------------- MODULE BotMessages ----------------------------
(***************************************************************************)
(* The message monitor of one bot: the ring buffer and its wake-up event   *)
(* in services/napcat_ws_service.py (push_message, get_messages,           *)
(* wait_for_message) and the WebSocket sessions that follow it,            *)
(* ws_bot_messages in routers/ws_router.py.                                *)
(*                                                                         *)
(* Messages are numbered in the order they are pushed; the number stands   *)
(* for the message_id, which OneBot makes unique per bot.                  *)
(***************************************************************************)
EXTENDS Naturals, Sequences

CONSTANTS
    Subs,     \* sessions of ws_bot_messages
    Cap,      \* _MESSAGE_BUFFER_SIZE, also the limit the sessions read with
    MaxMsgs   \* bound: messages ever pushed

CapAssumption == Cap \in Nat \ {0} /\ MaxMsgs \in Nat

Msgs == 1..MaxMsgs

VARIABLES
    buf,     \* _msg_buffers[name], oldest first
    pushed,  \* how many messages have been pushed
    pc,      \* [Subs -> where the session is suspended]
    last,    \* [Subs -> last_pushed_id, 0 for None]
    batch,   \* [Subs -> the messages of the send under way]
    got      \* [Subs -> what the client has received]

vars == <<buf, pushed, pc, last, batch, got>>

Elems(s) == {s[i] : i \in DOMAIN s}

Init ==
    /\ buf = <<>> /\ pushed = 0
    /\ pc = [s \in Subs |-> "new"]
    /\ last = [s \in Subs |-> 0]
    /\ batch = [s \in Subs |-> <<>>]
    /\ got = [s \in Subs |-> <<>>]

-----------------------------------------------------------------------------
(* The service *)

\* Faulty: a buffer without maxlen.
AppendedUnbounded(b, m) == Append(b, m)

\* deque(maxlen=Cap).append
Appended(b, m) == IF Len(b) < Cap THEN Append(b, m) ELSE Append(Tail(b), m)

\* _notify_msg_waiters: the sessions inside wait_for_message return.  One
\* that is elsewhere is not reached: wait_for_message clears the event first.
Woken == [s \in Subs |-> IF pc[s] = "waiting" THEN "woken" ELSE pc[s]]

\* push_message, or the end of a send_message that succeeded.
Push ==
    /\ pushed < MaxMsgs
    /\ pushed' = pushed + 1
    /\ buf' = Appended(buf, pushed')
    /\ pc' = Woken
    /\ UNCHANGED <<last, batch, got>>

\* cleanup, when the container is deleted or its data cleared.
Cleanup ==
    /\ buf' = <<>>
    /\ UNCHANGED <<pushed, pc, last, batch, got>>

-----------------------------------------------------------------------------
(* ws_bot_messages *)

SetSession(s, to) == pc' = [pc EXCEPT ![s] = to]

\* The session is accepted and starts to send the whole buffer.
Open(s) ==
    /\ pc[s] = "new"
    /\ SetSession(s, "sending")
    /\ batch' = [batch EXCEPT ![s] = buf]
    /\ last' = [last EXCEPT ![s] = IF buf = <<>> THEN 0 ELSE buf[Len(buf)]]
    /\ UNCHANGED <<buf, pushed, got>>

\* A send completes; the session calls wait_for_message.
Sent(s) ==
    /\ pc[s] = "sending"
    /\ got' = [got EXCEPT ![s] = @ \o batch[s]]
    /\ batch' = [batch EXCEPT ![s] = <<>>]
    /\ SetSession(s, "waiting")
    /\ UNCHANGED <<buf, pushed, last>>

\* A send fails or takes more than 5 seconds: the session ends.
SendFails(s) ==
    /\ pc[s] \in {"sending", "beating"}
    /\ batch' = [batch EXCEPT ![s] = <<>>]
    /\ SetSession(s, "closed")
    /\ UNCHANGED <<buf, pushed, last, got>>

AfterMsg(b, m) == LET i == CHOOSE i \in DOMAIN b : b[i] = m IN SubSeq(b, i + 1, Len(b))

\* Faulty: starts with the message last pushed instead of the one after it.
NewMsgsAgain(b, l) ==
    IF l \in Elems(b) THEN LET i == CHOOSE i \in DOMAIN b : b[i] = l IN SubSeq(b, i, Len(b)) ELSE b

\* Faulty: when the message last pushed has left the buffer, only the newest
\* one is new.
NewMsgsNewest(b, l) ==
    IF l = 0 THEN b
    ELSE IF l \in Elems(b) THEN AfterMsg(b, l)
    ELSE SubSeq(b, Len(b), Len(b))

\* Faulty: nothing is new for a session that has pushed nothing yet.
NewMsgsNone(b, l) == IF l \in Elems(b) THEN AfterMsg(b, l) ELSE <<>>

\* What is new for a session: all after last_pushed_id, or the whole buffer
\* if that message has left it.
NewMsgs(b, l) == IF l \in Elems(b) THEN AfterMsg(b, l) ELSE b

\* wait_for_message returned True.
Follow(s) ==
    /\ pc[s] = "woken"
    /\ LET new == NewMsgs(buf, last[s])
       IN  IF new = <<>>
           THEN SetSession(s, "waiting") /\ UNCHANGED <<last, batch>>
           ELSE /\ SetSession(s, "sending")
                /\ batch' = [batch EXCEPT ![s] = new]
                /\ last' = [last EXCEPT ![s] = new[Len(new)]]
    /\ UNCHANGED <<buf, pushed, got>>

\* No message within 15 seconds: a heartbeat, and back to waiting.
Idle(s) ==
    /\ pc[s] = "waiting"
    /\ SetSession(s, "beating")
    /\ UNCHANGED <<buf, pushed, last, batch, got>>

Beaten(s) ==
    /\ pc[s] = "beating"
    /\ SetSession(s, "waiting")
    /\ UNCHANGED <<buf, pushed, last, batch, got>>

-----------------------------------------------------------------------------
Session(s) == Sent(s) \/ SendFails(s) \/ Follow(s) \/ Beaten(s)

Next ==
    \/ Push \/ Cleanup
    \/ \E s \in Subs : Open(s) \/ Idle(s) \/ Session(s)

Spec == Init /\ [][Next]_vars

\* Sends complete or fail (they are bounded by 5 seconds), a session that
\* was woken runs, and the 15 seconds of a wait pass.
FairSpec == Spec /\ \A s \in Subs : WF_vars(Session(s)) /\ WF_vars(Idle(s))
-----------------------------------------------------------------------------
TypeOK ==
    /\ buf \in Seq(Msgs) /\ Len(buf) <= Cap
    /\ pushed \in 0..MaxMsgs
    /\ pc \in [Subs -> {"new", "sending", "waiting", "woken", "beating", "closed"}]
    /\ last \in [Subs -> 0..MaxMsgs]
    /\ batch \in [Subs -> Seq(Msgs)]
    /\ got \in [Subs -> Seq(Msgs)]

(* A client receives messages in the order the bot saw them, none twice,     *)
(* through evictions, clearings of the buffer and any overlap of its sends   *)
(* with new messages.                                                        *)
InOrderOnce ==
    \A s \in Subs : LET r == got[s] \o batch[s]
                    IN  \A i, j \in DOMAIN r : i < j => r[i] < r[j]

(* A client skips no message it could have been sent: one older than the     *)
(* last it was sent is with the client, or no longer in the buffer.          *)
NothingSkipped ==
    \A s \in Subs : \A m \in Elems(buf) :
        m <= last[s] /\ pc[s] # "closed" => m \in Elems(got[s] \o batch[s])

(* A session woken by a message delivers the newest one, or ends, or the     *)
(* message leaves the buffer first.                                          *)
WokenDelivers ==
    \A s \in Subs, m \in Msgs :
        (pc[s] = "woken" /\ pushed = m) ~> (m \in Elems(got[s]) \/ pc[s] = "closed" \/ m \notin Elems(buf))

(* Every new message is pushed to an open session: one that is in the buffer *)
(* reaches the client, or the session ends, or the message leaves the buffer.*)
EveryMessageDelivered ==
    \A s \in Subs, m \in Msgs :
        (m \in Elems(buf) /\ pc[s] \notin {"new", "closed"})
            ~> (m \in Elems(got[s]) \/ pc[s] = "closed" \/ m \notin Elems(buf))
=============================================================================
