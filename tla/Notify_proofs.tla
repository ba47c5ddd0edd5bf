--------------------------- MODULE Notify_proofs ---------------------------
(***************************************************************************)
(* The cache of notifications keeps its limit and nobody who follows the   *)
(* daemon misses a message, for any number of clients, any size of the     *)
(* cache and of the socket buffers.                                        *)
(***************************************************************************)
EXTENDS Notify, Integers, SequenceTheorems, TLAPS

(* Queues: what Append, Head and Tail return, and queues of numbered       *)
(* messages without a gap                                                  *)

(* What Append returns.                                                    *)
LEMMA AppendFacts ==
  ASSUME NEW S, NEW s \in Seq(S), NEW e \in S
  PROVE  /\ Append(s, e) \in Seq(S) /\ Len(Append(s, e)) = Len(s) + 1
         /\ Len(s) \in Nat
         /\ \A i \in 1..Len(s) : Append(s, e)[i] = s[i]
         /\ Append(s, e)[Len(s) + 1] = e
         /\ \A i \in 1..Len(Append(s, e)) : i \in 1..Len(s) \/ i = Len(s) + 1
BY AppendProperties

(* What Head and Tail return.                                              *)
LEMMA TailFacts ==
  ASSUME NEW S, NEW s \in Seq(S), s # <<>>
  PROVE  /\ Tail(s) \in Seq(S) /\ Len(Tail(s)) = Len(s) - 1
         /\ Len(s) \in Nat /\ Len(s) >= 1
         /\ Head(s) = s[1] /\ Head(s) \in S
         /\ \A i \in 1..Len(Tail(s)) : i + 1 \in 1..Len(s) /\ Tail(s)[i] = s[i + 1]
<1>1. Len(s) \in Nat /\ Len(s) # 0
  BY EmptySeq, LenProperties
<1> QED
  BY <1>1, HeadTailProperties

(* s holds the messages that follow g, which was read last; 0 is none.     *)
Chain(s, g) ==
  /\ s \in Seq(Nat \ {0}) /\ g \in Nat
  /\ \A i \in 1..Len(s) : i + 1 \in 1..Len(s) => s[i + 1] = s[i] + 1
  /\ s # <<>> /\ g # 0 => s[1] = g + 1

(* The last message that was sent to the reader.                           *)
LastOf(s, g) == IF s = <<>> THEN g ELSE s[Len(s)]

(* The last message is a number, and 0 only if there is none.              *)
LEMMA LastFacts ==
  ASSUME NEW s, NEW g, Chain(s, g)
  PROVE  /\ LastOf(s, g) \in Nat
         /\ LastOf(s, g) = 0 => s = <<>> /\ g = 0
<1>1. CASE s = <<>>
  BY <1>1 DEF Chain, LastOf
<1>2. CASE s # <<>>
  <2>1. Len(s) \in 1..Len(s)
    BY <1>2, TailFacts DEF Chain
  <2>2. s[Len(s)] \in Nat \ {0}
    BY <2>1, ElementOfSeq DEF Chain
  <2> QED
    BY <1>2, <2>2 DEF LastOf
<1> QED
  BY <1>1, <1>2

(* Sending the next message, or a first one, leaves no gap.                *)
LEMMA ChainAppend ==
  ASSUME NEW s, NEW g, Chain(s, g), NEW n \in Nat \ {0}, LastOf(s, g) \in {0, n - 1}
  PROVE  Chain(Append(s, n), g) /\ LastOf(Append(s, n), g) = n
<1> DEFINE t == Append(s, n)
<1>1. s \in Seq(Nat \ {0}) /\ Len(s) \in Nat
  BY LenProperties DEF Chain
<1>2. /\ t \in Seq(Nat \ {0}) /\ Len(t) = Len(s) + 1 /\ t[Len(s) + 1] = n
      /\ \A i \in 1..Len(s) : t[i] = s[i]
      /\ \A i \in 1..Len(t) : i \in 1..Len(s) \/ i = Len(s) + 1
  BY <1>1, AppendFacts
<1>3. t # <<>>
  BY <1>1, <1>2, EmptySeq
<1> HIDE DEF t
<1>4. LastOf(t, g) = n
  BY <1>2, <1>3 DEF LastOf
<1>5. CASE s = <<>>
  <2>1. Len(s) = 0 /\ t[1] = n
    BY <1>2, <1>5, EmptySeq
  <2>2. g # 0 => n = g + 1
    BY <1>5 DEF LastOf, Chain
  <2> QED
    BY <1>2, <1>4, <2>1, <2>2 DEF Chain, t
<1>6. CASE s # <<>>
  <2>1. Len(s) >= 1 /\ 1 \in 1..Len(s) /\ s[Len(s)] = n - 1
    <3>1. Len(s) >= 1
      BY <1>1, <1>6, TailFacts
    <3>2. LastOf(s, g) # 0
      BY <1>6, LastFacts
    <3> QED
      BY <1>1, <1>6, <3>1, <3>2 DEF LastOf
  <2>2. ASSUME NEW i \in 1..Len(t), i + 1 \in 1..Len(t) PROVE t[i + 1] = t[i] + 1
    <3>1. i \in 1..Len(s)
      BY <1>1, <1>2, <2>2
    <3>2. CASE i + 1 \in 1..Len(s)
      BY <1>2, <3>1, <3>2, Zenon DEF Chain
    <3>3. CASE i + 1 = Len(s) + 1
      <4>1. i = Len(s)
        BY <1>1, <3>3
      <4> QED
        BY <1>2, <2>1, <3>1, <4>1
    <3> QED
      BY <1>2, <2>2, <3>2, <3>3
  <2>3. g # 0 => t[1] = g + 1
    BY <1>2, <1>6, <2>1 DEF Chain
  <2> QED
    BY <1>2, <1>4, <2>2, <2>3 DEF Chain, t
<1> QED
  BY <1>5, <1>6

(* Reading a message does not change what was sent last, and what is read  *)
(* is the next one.                                                        *)
LEMMA ChainTail ==
  ASSUME NEW s, NEW g, Chain(s, g), s # <<>>
  PROVE  /\ Chain(Tail(s), Head(s)) /\ LastOf(Tail(s), Head(s)) = LastOf(s, g)
         /\ g = 0 \/ Head(s) = g + 1
<1> DEFINE t == Tail(s)
<1>1. s \in Seq(Nat \ {0})
  BY DEF Chain
<1>2. /\ t \in Seq(Nat \ {0}) /\ Len(t) = Len(s) - 1 /\ Len(s) \in Nat /\ Len(s) >= 1
      /\ Head(s) = s[1] /\ Head(s) \in Nat \ {0}
      /\ \A i \in 1..Len(t) : i + 1 \in 1..Len(s) /\ t[i] = s[i + 1]
  BY <1>1, TailFacts
<1>3. (t = <<>>) <=> (Len(t) = 0)
  BY <1>2, EmptySeq
<1> HIDE DEF t
<1>4. Chain(t, Head(s))
  <2>1. ASSUME NEW i \in 1..Len(t), i + 1 \in 1..Len(t) PROVE t[i + 1] = t[i] + 1
    BY <1>2, <2>1, Zenon DEF Chain
  <2>2. t # <<>> => t[1] = Head(s) + 1
    <3> SUFFICES ASSUME t # <<>> PROVE t[1] = Head(s) + 1
      OBVIOUS
    <3>1. 1 \in 1..Len(t) /\ 1 \in 1..Len(s) /\ 1 + 1 \in 1..Len(s)
      BY <1>2, <1>3
    <3> QED
      BY <1>2, <3>1 DEF Chain
  <2> QED
    BY <1>2, <2>1, <2>2 DEF Chain
<1>5. LastOf(t, Head(s)) = LastOf(s, g)
  <2>1. CASE t = <<>>
    BY <1>2, <1>3, <2>1 DEF LastOf
  <2>2. CASE t # <<>>
    <3>1. Len(t) \in 1..Len(t)
      BY <1>2, <1>3, <2>2
    <3>2. t[Len(t)] = s[Len(s)]
      BY <1>2, <3>1
    <3> QED
      BY <2>2, <3>2 DEF LastOf
  <2> QED
    BY <2>1, <2>2
<1> QED
  BY <1>2, <1>4, <1>5 DEF Chain, t

-----------------------------------------------------------------------------
(* The invariant                                                           *)

Place == {"out", "clients", "msg", "nsend", "prog", "psend"}
PC == {"wait", "ack", "notAcked", "drop", "start", "init", "result", "end", "idle",
       "sleep", "REQ_INSTALL", "request", "GET_STATUS", "NOTIFY_STREAM", "history",
       "streamError"}

(* Who sends holds the lock of what is sent.  The progress thread keeps the *)
(* lock of its structure while it logs and never calls its own interface.   *)
LockInv ==
  /\ notify_conns \subseteq Stream /\ conns \subseteq Listener
  /\ owner \in [Lock -> Thread \cup {Nobody}]
  /\ pc \in [Thread -> PC] /\ at \in [Thread -> Place] /\ arg \in [Thread -> Status]
  /\ todo \in [Thread -> SUBSET (Stream \cup Listener)]
  /\ \A t \in Thread : at[t] = "nsend" => owner["msg"] = t
  /\ \A t \in Thread : at[t] = "psend" => owner["prog"] = t
  /\ pc["network"] = "history" => owner["msg"] = "network"
  /\ pc["network"] \in {"wait", "REQ_INSTALL", "GET_STATUS", "NOTIFY_STREAM", "history"} =>
       at["network"] = "out"
  /\ pc["network"] \in {"NOTIFY_STREAM", "history"} => serving \in Stream
  /\ pc["progress"] \in {"notAcked", "drop"} => owner["prog"] = "progress"
  /\ pc["progress"] \in {"wait", "ack"} => at["progress"] = "out"
  /\ at["progress"] \notin {"prog", "psend"} /\ arg["progress"] # "EVENT"

(* c was never sent a progress message.                                    *)
NewListener(c) == c \notin conns /\ pbuf[c] = <<>> /\ pgot[c] = 0

(* The last message sent to a listener is the last there is, or the one    *)
(* before while the last one is being sent.                                *)
ProgInv ==
  /\ plog \in Nat /\ conns \subseteq Listener /\ fresh \subseteq Stream \cup Listener
  /\ pbuf \in [Listener -> Seq(Nat \ {0})] /\ pgot \in [Listener -> Nat]
  /\ \A c \in Listener : Chain(pbuf[c], pgot[c])
  /\ \A t \in Thread : at[t] = "psend" => todo[t] \subseteq conns /\ plog # 0
  /\ \A c \in conns : (\A t \in Thread : at[t] = "psend" => c \notin todo[t]) =>
       LastOf(pbuf[c], pgot[c]) \in {0, plog}
  /\ \A t \in Thread : at[t] = "psend" =>
       \A c \in todo[t] : LastOf(pbuf[c], pgot[c]) \in {0, plog - 1}
  /\ \A c \in fresh \cap Listener : NewListener(c)
  /\ pc["progress"] = "ack" => \A c \in todo["progress"] \cap Listener : NewListener(c) /\ c \notin fresh

(* c was never sent a notification and is not registered.                  *)
NewStream(c) == c \notin notify_conns /\ nbuf[c] = <<>> /\ ngot[c] = 0

Message == [id : Nat \ {0}, st : Status]

(* The cache holds the last messages.                                      *)
CacheInv ==
  /\ nlog \in Nat /\ notifymsgs \in Seq(Message)
  /\ CacheBounded /\ nrmsgs <= nlog
  /\ \A i \in 1..Len(notifymsgs) : notifymsgs[i].id = nlog - Len(notifymsgs) + i

(* While the history is written the client has what was written of it; a   *)
(* registered client has the last message there is, or the one before      *)
(* while the last one is being sent.                                       *)
StreamInv ==
  /\ nbuf \in [Stream -> Seq(Nat \ {0})] /\ ngot \in [Stream -> Nat]
  /\ \A c \in Stream : Chain(nbuf[c], ngot[c])
  /\ \A t \in Thread : at[t] = "nsend" => todo[t] \subseteq notify_conns /\ nlog # 0
  /\ \A c \in notify_conns : (\A t \in Thread : at[t] = "nsend" => c \notin todo[t]) =>
       LastOf(nbuf[c], ngot[c]) \in {0, nlog}
  /\ \A t \in Thread : at[t] = "nsend" =>
       \A c \in todo[t] : LastOf(nbuf[c], ngot[c]) \in {0, nlog - 1}
  /\ \A c \in fresh \cap Stream : NewStream(c)
  /\ pc["network"] = "NOTIFY_STREAM" => NewStream(serving) /\ serving \notin fresh
  /\ pc["network"] = "history" =>
       /\ serving \notin notify_conns \cup fresh /\ sent \in 0..Len(notifymsgs)
       /\ LastOf(nbuf[serving], ngot[serving]) =
            IF sent = 0 THEN 0 ELSE notifymsgs[sent].id

-----------------------------------------------------------------------------
(* Nothing is sent and nobody is connected at the start.                   *)
LEMMA LockInit == Init => LockInv
BY BoundAssumption DEF Init, LockInv, Lock, Thread, Place, PC, Status

(* The calls of one thread, which may be any.                              *)
LEMMA LockCalls == ASSUME LockInv, NEW t \in Thread, Calls(t) PROVE LockInv'
<1> USE BoundAssumption DEF LockInv, Thread, Lock, Place, PC, Status, Free, Holds, pollers,
           streams, progress
<1>1. CASE notify(t)
  BY <1>1 DEF notify
<1>2. CASE network_notifier(t)
  BY <1>2 DEF network_notifier
<1>3. CASE notify_returns(t)
  BY <1>3 DEF notify_returns
<1>4. CASE swupdate_progress(t)
  BY <1>4 DEF swupdate_progress
<1>5. CASE progress_returns(t)
  BY <1>5 DEF progress_returns
<1>6. ASSUME NEW c \in Stream, send_notify_msg(t, c) PROVE LockInv'
  BY <1>6 DEF send_notify_msg
<1>7. ASSUME NEW c \in Listener, send_progress_msg(t, c) PROVE LockInv'
  BY <1>7 DEF send_progress_msg
<1> QED
  BY <1>1, <1>2, <1>3, <1>4, <1>5, <1>6, <1>7 DEF Calls

(* The steps of the threads outside of these calls.                        *)
LEMMA LockThreads ==
  ASSUME LockInv, InstallerThread \/ NetworkThread \/ ProgressThread \/ notifier_thread
  PROVE  LockInv'
<1> USE BoundAssumption DEF LockInv, Thread, Lock, Place, PC, Status, Free, Holds, pollers, Call,
           streams, progress
<1>1. CASE wakeup
  BY <1>1 DEF wakeup
<1>2. CASE notify_start \/ swupdate_progress_init \/ notify_result
  BY <1>2 DEF notify_start, swupdate_progress_init, notify_result, Installer
<1>3. CASE swupdate_progress_end \/ notify_idle
  BY <1>3 DEF swupdate_progress_end, notify_idle, Installer
<1>4. CASE set_idle
  BY <1>4 DEF set_idle
<1>5. CASE trace_request
  BY <1>5 DEF trace_request
<1>6. CASE REQ_INSTALL
  BY <1>6 DEF REQ_INSTALL, Answered
<1>7. CASE GET_STATUS
  BY <1>7 DEF GET_STATUS, Answered
<1>8. CASE NOTIFY_STREAM
  BY <1>8 DEF NOTIFY_STREAM
<1>9. CASE write_history
  BY <1>9 DEF write_history, threads
<1>10. CASE register_stream
  BY <1>10 DEF register_stream
<1>11. CASE stream_fails
  BY <1>11 DEF stream_fails
<1>12. CASE stream_error
  BY <1>12 DEF stream_error, Answered
<1>13. ASSUME NEW c \in Listener, progress_send_connect_ack(c) PROVE LockInv'
  BY <1>13 DEF progress_send_connect_ack
<1>14. CASE log_not_acked
  BY <1>14 DEF log_not_acked
<1>15. CASE drop_listener
  BY <1>15 DEF drop_listener
<1>16. CASE notifier_thread
  BY <1>16 DEF notifier_thread
<1> QED
  BY <1>1, <1>2, <1>3, <1>4, <1>5, <1>6, <1>7, <1>8, <1>9, <1>10, <1>11, <1>12, <1>13,
     <1>14, <1>15, <1>16, Zenon
     DEF InstallerThread, NetworkThread, ProgressThread

(* Clients connect, read and hang up.                                      *)
Clients ==
  \/ \E c \in Listener : accept_listener(c) \/ progress_ipc_receive(c)
  \/ \E c \in Stream : accept_stream(c) \/ ipc_notify_receive(c)
  \/ \E c \in Poller : accept_request(c) \/ accept_poll(c)
  \/ \E c \in Stream \cup Listener : hang_up(c)

LEMMA LockClients == ASSUME LockInv, Clients \/ UNCHANGED vars PROVE LockInv'
<1> USE BoundAssumption DEF LockInv, Thread, Lock, Place, PC, Status, Free, pollers, threads,
           streams, progress
<1>1. ASSUME NEW c \in Listener, accept_listener(c) PROVE LockInv'
  BY <1>1 DEF accept_listener
<1>2. ASSUME NEW c \in Listener, progress_ipc_receive(c) PROVE LockInv'
  BY <1>2 DEF progress_ipc_receive
<1>3. ASSUME NEW c \in Stream, accept_stream(c) PROVE LockInv'
  BY <1>3 DEF accept_stream, accept
<1>4. ASSUME NEW c \in Stream, ipc_notify_receive(c) PROVE LockInv'
  BY <1>4 DEF ipc_notify_receive
<1>5. ASSUME NEW c \in Poller, accept_request(c) PROVE LockInv'
  BY <1>5 DEF accept_request, accept
<1>6. ASSUME NEW c \in Poller, accept_poll(c) PROVE LockInv'
  BY <1>6 DEF accept_poll, accept
<1>7. ASSUME NEW c \in Stream \cup Listener, hang_up(c) PROVE LockInv'
  BY <1>7 DEF hang_up
<1>8. CASE UNCHANGED vars
  BY <1>8 DEF vars
<1> QED
  BY <1>1, <1>2, <1>3, <1>4, <1>5, <1>6, <1>7, <1>8, Zenon DEF Clients

LEMMA NextCases ==
  ASSUME [Next]_vars
  PROVE  \/ \E t \in Thread : Calls(t)
         \/ InstallerThread \/ NetworkThread \/ ProgressThread \/ notifier_thread
         \/ Clients \/ UNCHANGED vars
BY DEF Next, Clients

(* The locks and the places of the threads, in all reachable states.       *)
LEMMA LockNext == LockInv /\ [Next]_vars => LockInv'
BY LockCalls, LockThreads, LockClients, NextCases

-----------------------------------------------------------------------------
LEMMA ProgInit == Init => ProgInv
<1> SUFFICES ASSUME Init PROVE ProgInv
  OBVIOUS
<1>1. ASSUME NEW c \in Listener PROVE Chain(pbuf[c], pgot[c])
  <2>1. pbuf[c] = <<>> /\ pgot[c] = 0
    BY DEF Init
  <2>2. <<>> \in Seq(Nat \ {0}) /\ Len(<<>>) = 0
    OBVIOUS
  <2> QED
    BY <2>1, <2>2 DEF Chain
<1> QED
  BY <1>1 DEF Init, ProgInv, Thread, NewListener

(* A step that sends nothing and connects nobody.  Who sends goes on with  *)
(* the same listeners or has none left.                                    *)
LEMMA ProgFrame ==
  ASSUME ProgInv, UNCHANGED progress, fresh' \subseteq fresh,
         \A t \in Thread : at'[t] = "psend" => at[t] = "psend" /\ todo'[t] = todo[t],
         \A t \in Thread : at[t] = "psend" /\ at'[t] # "psend" => todo[t] = {},
         pc'["progress"] = "ack" =>
           pc["progress"] = "ack" /\ todo'["progress"] = todo["progress"]
  PROVE  ProgInv'
BY Zenon DEF ProgInv, progress, NewListener

(* What the calls do to the progress interface.                            *)
LEMMA ProgCalls ==
  ASSUME LockInv, ProgInv, NEW t \in Thread, Calls(t) PROVE ProgInv'
<1> USE DEF Free, Holds
<1>0. /\ at \in [Thread -> Place] /\ todo \in [Thread -> SUBSET (Stream \cup Listener)]
      /\ pc["progress"] = "ack" => at["progress"] = "out"
  BY DEF LockInv
<1>1. CASE notify(t) \/ notify_returns(t)
  <2>1. /\ UNCHANGED progress /\ UNCHANGED <<fresh, todo, pc>>
        /\ \A u \in Thread : at'[u] = "psend" <=> at[u] = "psend"
    BY <1>0, <1>1 DEF notify, notify_returns, clients
  <2> QED
    BY <2>1, ProgFrame
<1>2. CASE network_notifier(t)
  <2>1. /\ UNCHANGED progress /\ UNCHANGED <<fresh, pc>>
        /\ \A u \in Thread : at'[u] = "psend" <=> at[u] = "psend"
        /\ \A u \in Thread : at[u] = "psend" => todo'[u] = todo[u]
    BY <1>0, <1>2 DEF network_notifier, clients
  <2>2. pc["progress"] = "ack" => todo'["progress"] = todo["progress"]
    BY <1>0, <1>2 DEF network_notifier, Thread
  <2> QED
    BY <2>1, <2>2, ProgFrame, Zenon
<1>3. CASE progress_returns(t)
  <2>1. /\ UNCHANGED progress /\ UNCHANGED <<fresh, pc, todo>>
        /\ \A u \in Thread : at'[u] = "psend" => at[u] = "psend"
        /\ \A u \in Thread : at[u] = "psend" /\ at'[u] # "psend" => todo[u] = {}
    BY <1>0, <1>3 DEF progress_returns, clients
  <2> QED
    BY <2>1, ProgFrame
<1>4. ASSUME NEW c \in Stream, send_notify_msg(t, c) PROVE ProgInv'
  <2>1. /\ UNCHANGED progress /\ UNCHANGED <<fresh, pc, at>>
        /\ \A u \in Thread : at[u] = "psend" => todo'[u] = todo[u]
    BY <1>0, <1>4 DEF send_notify_msg, clients
  <2>2. pc["progress"] = "ack" => todo'["progress"] = todo["progress"]
    BY <1>0, <1>4 DEF send_notify_msg, Thread
  <2> QED
    BY <2>1, <2>2, ProgFrame
<1>5. CASE swupdate_progress(t)
  <2>1. \A u \in Thread : at[u] # "psend"
    BY <1>5, BoundAssumption DEF LockInv, swupdate_progress
  <2>2. /\ UNCHANGED <<fresh, pc, conns, pbuf, pgot>> /\ plog' = plog + 1
        /\ at'[t] = "psend" /\ todo'[t] = conns
        /\ \A u \in Thread : u # t => at'[u] = at[u]
    BY <1>0, <1>5 DEF swupdate_progress, clients
  <2>3. pc["progress"] = "ack" => todo'["progress"] = todo["progress"]
    BY <1>0, <1>5 DEF swupdate_progress, Thread
  <2>4. \A c \in conns : LastOf(pbuf[c], pgot[c]) \in {0, plog' - 1}
    <3>1. plog \in Nat /\ \A c \in conns : LastOf(pbuf[c], pgot[c]) \in {0, plog}
      BY <2>1, Zenon DEF ProgInv
    <3>2. plog' - 1 = plog
      BY <2>2, <3>1
    <3> QED
      BY <3>1, <3>2
  <2>5. \A u \in Thread : at'[u] = "psend" => u = t
    BY <2>1, <2>2
  <2>6. \A d \in Listener : NewListener(d)' <=> NewListener(d)
    BY <2>2, Zenon DEF NewListener
  <2> QED
    BY <2>2, <2>3, <2>4, <2>5, <2>6 DEF ProgInv
<1>6. ASSUME NEW c \in Listener, send_progress_msg(t, c) PROVE ProgInv'
  <2>1. \A u \in Thread : at[u] = "psend" => u = t
    BY <1>6 DEF LockInv, send_progress_msg
  <2>2. /\ UNCHANGED <<fresh, pc, plog, pgot, at>> /\ at[t] = "psend"
        /\ todo'[t] = todo[t] \ {c} /\ c \in todo[t]
    BY <1>0, <1>6 DEF send_progress_msg, clients
  <2>3. pc["progress"] = "ack" => todo'["progress"] = todo["progress"]
    BY <1>0, <1>6 DEF send_progress_msg, Thread
  <2>4. /\ plog \in Nat \ {0} /\ c \in conns
        /\ LastOf(pbuf[c], pgot[c]) \in {0, plog - 1}
        /\ Chain(pbuf[c], pgot[c]) /\ pbuf[c] \in Seq(Nat \ {0})
    BY <2>2 DEF ProgInv
  <2>5. CASE pbuf' = [pbuf EXCEPT ![c] = Append(@, plog)] /\ UNCHANGED conns
    <3>1. /\ Chain(Append(pbuf[c], plog), pgot[c])
          /\ LastOf(Append(pbuf[c], plog), pgot[c]) = plog
      BY <2>4, ChainAppend
    <3>2. pbuf'[c] = Append(pbuf[c], plog) /\ \A d \in Listener : d # c => pbuf'[d] = pbuf[d]
      BY <2>5, Zenon DEF ProgInv
    <3>3. pbuf' \in [Listener -> Seq(Nat \ {0})]
      BY <2>5, <3>1 DEF ProgInv, Chain
    <3>4. \A d \in Listener : Chain(pbuf'[d], pgot'[d])
      BY <2>2, <3>1, <3>2, Zenon DEF ProgInv
    <3>5. \A d \in Listener : NewListener(d) => NewListener(d)'
      BY <2>2, <2>4, <2>5, <3>2 DEF NewListener
    <3>6. \A d \in conns : (\A u \in Thread : at[u] = "psend" => d \notin todo'[u]) =>
            LastOf(pbuf'[d], pgot'[d]) \in {0, plog}
      <4> SUFFICES ASSUME NEW d \in conns, d # c,
                          \A u \in Thread : at[u] = "psend" => d \notin todo'[u]
                   PROVE  LastOf(pbuf'[d], pgot'[d]) \in {0, plog}
        BY <2>2, <3>1, <3>2, Zenon
      <4>1. \A u \in Thread : at[u] = "psend" => d \notin todo[u]
        BY <2>1, <2>2
      <4> QED
        BY <2>2, <3>2, <4>1, Zenon DEF ProgInv
    <3>7. \A d \in todo'[t] : LastOf(pbuf'[d], pgot'[d]) \in {0, plog - 1}
      BY <2>2, <3>2, Zenon DEF ProgInv
    <3> QED
      BY <2>1, <2>2, <2>3, <2>5, <3>3, <3>4, <3>5, <3>6, <3>7, Zenon DEF ProgInv
  <2>6. CASE UNCHANGED pbuf /\ conns' = conns \ {c}
    BY <2>1, <2>2, <2>3, <2>6 DEF ProgInv, NewListener
  <2> QED
    BY <1>6, <2>5, <2>6 DEF send_progress_msg
<1> QED
  BY <1>1, <1>2, <1>3, <1>4, <1>5, <1>6 DEF Calls

LEMMA ProgThreads ==
  ASSUME LockInv, ProgInv, InstallerThread \/ NetworkThread \/ notifier_thread
  PROVE  ProgInv'
<1> USE DEF progress, clients, streams, pollers, Call, Thread
<1>0. at \in [Thread -> Place] /\ pc \in [Thread -> PC]
  BY DEF LockInv
<1>1. /\ UNCHANGED progress /\ UNCHANGED <<fresh, todo>>
      /\ pc'["progress"] = pc["progress"]
      /\ \A t \in Thread : at'[t] = "psend" <=> at[t] = "psend"
  <2>1. CASE InstallerThread
    BY <1>0, <2>1, Zenon DEF InstallerThread, wakeup, notify_start, swupdate_progress_init,
       notify_result, swupdate_progress_end, set_idle, notify_idle, Installer
  <2>2. CASE trace_request \/ REQ_INSTALL \/ GET_STATUS \/ NOTIFY_STREAM
    BY <1>0, <2>2, Zenon DEF trace_request, REQ_INSTALL, GET_STATUS, NOTIFY_STREAM, Answered
  <2>3. CASE write_history \/ register_stream \/ stream_fails \/ stream_error
    BY <1>0, <2>3, Zenon DEF write_history, register_stream, stream_fails, stream_error, Answered,
       threads
  <2>4. CASE notifier_thread
    BY <1>0, <2>4 DEF notifier_thread
  <2> QED
    BY <2>1, <2>2, <2>3, <2>4 DEF NetworkThread
<1> QED
  BY <1>1, ProgFrame

(* The progress thread registers a listener when nothing is sent.          *)
LEMMA ProgThread ==
  ASSUME LockInv, ProgInv, ProgressThread PROVE ProgInv'
<1> USE DEF clients, Call
<1>0. /\ at \in [Thread -> Place] /\ pc \in [Thread -> PC]
      /\ todo \in [Thread -> SUBSET (Stream \cup Listener)]
      /\ at["progress"] # "psend" /\ "progress" \in Thread
  BY DEF LockInv, Thread
<1>1. CASE log_not_acked \/ drop_listener
  <2>1. /\ UNCHANGED progress /\ UNCHANGED <<fresh, todo>>
        /\ pc'["progress"] # "ack"
        /\ \A t \in Thread : at'[t] = "psend" <=> at[t] = "psend"
    BY <1>0, <1>1 DEF log_not_acked, drop_listener
  <2> QED
    BY <2>1, ProgFrame, Zenon
<1>2. ASSUME NEW c \in Listener, progress_send_connect_ack(c) PROVE ProgInv'
  <2>1. /\ UNCHANGED <<plog, pbuf, pgot, fresh>>
        /\ pc'["progress"] # "ack"
        /\ \A t \in Thread : at'[t] = "psend" <=> at[t] = "psend"
        /\ \A t \in Thread : at[t] = "psend" => todo'[t] = todo[t]
        /\ conns' \in {conns, conns \cup {c}}
    BY <1>0, <1>2 DEF progress_send_connect_ack
  <2>2. NewListener(c)
    BY <1>2 DEF progress_send_connect_ack, ProgInv
  <2>3. CASE conns' = conns
    BY <2>1, <2>3, ProgFrame DEF progress
  <2>4. CASE conns' = conns \cup {c}
    <3>1. LastOf(pbuf[c], pgot[c]) = 0
      BY <2>2 DEF NewListener, LastOf
    <3>2. \A t \in Thread : at[t] # "psend"
      BY <1>2, BoundAssumption DEF LockInv, Free, progress_send_connect_ack
    <3>3. c \notin fresh
      BY <1>2 DEF progress_send_connect_ack, ProgInv
    <3> QED
      BY <2>1, <2>4, <3>1, <3>2, <3>3, Zenon DEF ProgInv, NewListener
  <2> QED
    BY <2>1, <2>3, <2>4
<1> QED
  BY <1>1, <1>2 DEF ProgressThread

(* Listeners connect and read.                                             *)
LEMMA ProgClients ==
  ASSUME LockInv, ProgInv, Clients \/ UNCHANGED vars PROVE ProgInv'
<1> USE DEF clients, threads
<1>0. /\ at \in [Thread -> Place] /\ pc \in [Thread -> PC]
      /\ todo \in [Thread -> SUBSET (Stream \cup Listener)]
      /\ at["progress"] # "psend" /\ "progress" \in Thread /\ "network" \in Thread
  BY DEF LockInv, Thread
<1>1. ASSUME NEW c \in Listener, accept_listener(c) PROVE ProgInv'
  <2>1. /\ UNCHANGED <<plog, conns, pbuf, pgot, at>> /\ fresh' = fresh \ {c}
        /\ todo'["progress"] = {c} /\ NewListener(c)
        /\ \A t \in Thread : at[t] = "psend" => todo'[t] = todo[t]
    BY <1>0, <1>1 DEF accept_listener, progress, ProgInv
  <2> QED
    BY <2>1, Zenon DEF ProgInv, NewListener
<1>2. ASSUME NEW c \in Listener, progress_ipc_receive(c) PROVE ProgInv'
  <2>1. /\ UNCHANGED <<plog, conns, fresh, at, todo, pc>> /\ pbuf[c] # <<>>
        /\ pgot'[c] = Head(pbuf[c]) /\ pbuf'[c] = Tail(pbuf[c])
        /\ \A d \in Listener : d # c => pbuf'[d] = pbuf[d] /\ pgot'[d] = pgot[d]
    BY <1>2 DEF progress_ipc_receive, ProgInv
  <2>2. /\ Chain(pbuf'[c], pgot'[c]) /\ LastOf(pbuf'[c], pgot'[c]) = LastOf(pbuf[c], pgot[c])
        /\ pgot[c] = 0 \/ pgot'[c] = pgot[c] + 1
    <3>1. Chain(pbuf[c], pgot[c])
      BY DEF ProgInv
    <3> QED
      BY <2>1, <3>1, ChainTail, Zenon
  <2>3. pbuf' \in [Listener -> Seq(Nat \ {0})] /\ pgot' \in [Listener -> Nat]
    BY <1>2, <2>1, <2>2, Zenon DEF progress_ipc_receive, ProgInv, Chain
  <2>4. \A d \in Listener : LastOf(pbuf'[d], pgot'[d]) = LastOf(pbuf[d], pgot[d])
    BY <2>1, <2>2, Zenon
  <2>5. ~NewListener(c) /\ \A d \in Listener : NewListener(d) => NewListener(d)'
    BY <2>1 DEF NewListener
  <2> QED
    BY <2>1, <2>2, <2>3, <2>4, <2>5, Zenon DEF ProgInv
<1>3. CASE UNCHANGED vars \/ (\E c \in Stream : accept_stream(c) \/ ipc_notify_receive(c))
           \/ (\E c \in Poller : accept_request(c) \/ accept_poll(c))
           \/ (\E c \in Stream \cup Listener : hang_up(c))
  <2>1. /\ UNCHANGED progress /\ fresh' \subseteq fresh /\ UNCHANGED <<at, todo>>
        /\ pc'["progress"] = pc["progress"]
    BY <1>0, <1>3 DEF vars, accept_stream, ipc_notify_receive, accept_request, accept_poll,
       hang_up, accept
  <2> QED
    BY <2>1, ProgFrame
<1> QED
  BY <1>1, <1>2, <1>3 DEF Clients

LEMMA ProgNext == LockInv /\ ProgInv /\ [Next]_vars => ProgInv'
BY ProgCalls, ProgThreads, ProgThread, ProgClients, NextCases

-----------------------------------------------------------------------------
(* The cache is empty at the start.                                        *)
LEMMA CacheInit == Init => CacheInv
<1>1. <<>> \in Seq(Message) /\ Len(<<>>) = 0
  OBVIOUS
<1> QED
  BY <1>1, BoundAssumption DEF Init, CacheInv, CacheBounded

(* Taking the oldest message away leaves the last ones.                    *)
LEMMA CacheTail ==
  ASSUME CacheInv, notifymsgs # <<>>
  PROVE  /\ Tail(notifymsgs) \in Seq(Message) /\ Len(Tail(notifymsgs)) = nrmsgs - 1
         /\ nrmsgs \in Nat /\ nrmsgs >= 1
         /\ \A i \in 1..(nrmsgs - 1) : Tail(notifymsgs)[i].id = nlog - (nrmsgs - 1) + i
<1>1. /\ Tail(notifymsgs) \in Seq(Message) /\ Len(Tail(notifymsgs)) = Len(notifymsgs) - 1
      /\ Len(notifymsgs) \in Nat /\ Len(notifymsgs) >= 1
      /\ \A i \in 1..Len(Tail(notifymsgs)) :
           i + 1 \in 1..Len(notifymsgs) /\ Tail(notifymsgs)[i] = notifymsgs[i + 1]
  BY TailFacts DEF CacheInv
<1>2. nrmsgs = Len(notifymsgs)
  BY DEF CacheInv, CacheBounded
<1> DEFINE q == Tail(notifymsgs)
<1> HIDE DEF q
<1>3. ASSUME NEW i \in 1..(nrmsgs - 1) PROVE q[i].id = nlog - (nrmsgs - 1) + i
  <2>1. i + 1 \in 1..Len(notifymsgs) /\ q[i] = notifymsgs[i + 1]
    BY <1>1, <1>2 DEF q
  <2>2. notifymsgs[i + 1].id = nlog - Len(notifymsgs) + (i + 1)
    BY <2>1 DEF CacheInv
  <2> QED
    BY <1>1, <1>2, <2>1, <2>2 DEF CacheInv
<1> QED
  BY <1>1, <1>2, <1>3 DEF q

(* One message more.                                                       *)
LEMMA CacheAppend ==
  ASSUME CacheInv, NEW t \in Thread, arg[t] \in Status, network_notifier(t)
  PROVE  CacheInv'
<1> DEFINE full == nrmsgs + 1 > NumCached
           q == IF full THEN Tail(notifymsgs) ELSE notifymsgs
           m == [id |-> nlog + 1, st |-> arg[t]]
<1>0. /\ notifymsgs' = Append(q, m) /\ nrmsgs' = (IF full THEN nrmsgs ELSE nrmsgs + 1)
      /\ nlog' = nlog + 1 /\ nlog \in Nat
      /\ nrmsgs = Len(notifymsgs) /\ nrmsgs \in Nat /\ nrmsgs <= NumCached /\ nrmsgs <= nlog
  BY LenProperties DEF network_notifier, CacheInv, CacheBounded
<1>1. m \in Message
  BY <1>0 DEF Message
<1>2. /\ q \in Seq(Message) /\ Len(q) + 1 = nrmsgs' /\ Len(q) \in Nat
      /\ \A i \in 1..Len(q) : q[i].id = nlog - Len(q) + i
  <2>1. CASE full
    <3>1. nrmsgs # 0
      BY <1>0, <2>1, BoundAssumption
    <3>2. notifymsgs # <<>>
      BY <1>0, <3>1, EmptySeq
    <3>3. q = Tail(notifymsgs)
      BY <2>1
    <3>4. nrmsgs' = nrmsgs
      BY <1>0, <2>1
    <3> HIDE DEF q, full
    <3>5. /\ q \in Seq(Message) /\ Len(q) = nrmsgs - 1 /\ nrmsgs >= 1
          /\ \A i \in 1..(nrmsgs - 1) : q[i].id = nlog - (nrmsgs - 1) + i
      BY <3>2, <3>3, CacheTail
    <3>6. Len(q) + 1 = nrmsgs' /\ Len(q) \in Nat
      BY <1>0, <3>4, <3>5
    <3> QED
      BY <3>5, <3>6
  <2>2. CASE ~full
    BY <1>0, <2>2 DEF CacheInv
  <2> QED
    BY <2>1, <2>2
<1>3. /\ Append(q, m) \in Seq(Message) /\ Len(Append(q, m)) = Len(q) + 1
      /\ \A i \in 1..Len(q) : Append(q, m)[i] = q[i]
      /\ Append(q, m)[Len(q) + 1] = m
      /\ \A i \in 1..Len(Append(q, m)) : i \in 1..Len(q) \/ i = Len(q) + 1
  <2> HIDE DEF q, m
  <2> QED
    BY <1>1, <1>2, AppendFacts
<1>4. m.id = nlog + 1
  OBVIOUS
<1>5. nrmsgs' <= NumCached /\ nrmsgs' <= nlog'
  BY <1>0, BoundAssumption
<1> HIDE DEF q, m, full
<1>6. ASSUME NEW i \in 1..Len(notifymsgs')
      PROVE  notifymsgs'[i].id = nlog' - Len(notifymsgs') + i
  <2>1. CASE i \in 1..Len(q)
    <3>1. notifymsgs'[i].id = nlog - Len(q) + i
      BY <1>0, <1>2, <1>3, <2>1
    <3> QED
      BY <1>0, <1>2, <1>3, <2>1, <3>1
  <2>2. CASE i = Len(q) + 1
    BY <1>0, <1>2, <1>3, <1>4, <2>2
  <2> QED
    BY <1>0, <1>3, <1>6, <2>1, <2>2
<1> QED
  BY <1>0, <1>2, <1>3, <1>5, <1>6 DEF CacheInv, CacheBounded

(* The cache changes in three places.                                      *)
LEMMA CacheNext == LockInv /\ CacheInv /\ [Next]_vars => CacheInv'
<1> SUFFICES ASSUME LockInv, CacheInv, [Next]_vars PROVE CacheInv'
  OBVIOUS
<1>0. ASSUME UNCHANGED cache PROVE CacheInv'
  BY <1>0 DEF cache, CacheInv, CacheBounded
<1>1. ASSUME NEW t \in Thread, network_notifier(t) PROVE CacheInv'
  BY <1>1, CacheAppend DEF LockInv
<1>2. CASE REQ_INSTALL
  <2>1. CASE UNCHANGED <<notifymsgs, nrmsgs>>
    BY <1>0, <1>2, <2>1 DEF REQ_INSTALL, cache
  <2>2. CASE notifymsgs' = <<>> /\ nrmsgs' = 0
    <3>1. <<>> \in Seq(Message) /\ Len(<<>>) = 0
      OBVIOUS
    <3> QED
      BY <1>2, <2>2, <3>1, BoundAssumption DEF REQ_INSTALL, CacheInv, CacheBounded
  <2> QED
    BY <1>2, <2>1, <2>2 DEF REQ_INSTALL
<1>3. CASE GET_STATUS
  <2>1. CASE notifymsgs = <<>>
    BY <1>0, <1>3, <2>1 DEF GET_STATUS, cache
  <2>2. CASE notifymsgs # <<>>
    <3>1. notifymsgs' = Tail(notifymsgs) /\ nrmsgs' = nrmsgs - 1 /\ nlog' = nlog
      BY <1>3, <2>2 DEF GET_STATUS
    <3>2. nrmsgs <= NumCached /\ nrmsgs <= nlog /\ nlog \in Nat
      BY DEF CacheInv, CacheBounded
    <3>3. /\ notifymsgs' \in Seq(Message) /\ Len(notifymsgs') = nrmsgs' /\ nrmsgs \in Nat
          /\ \A i \in 1..Len(notifymsgs') : notifymsgs'[i].id = nlog' - Len(notifymsgs') + i
      BY <2>2, <3>1, CacheTail
    <3>4. nrmsgs' <= NumCached /\ nrmsgs' <= nlog'
      BY <3>1, <3>2, <3>3, BoundAssumption
    <3> QED
      BY <3>1, <3>2, <3>3, <3>4 DEF CacheInv, CacheBounded
  <2> QED
    BY <2>1, <2>2
<1>4. ASSUME NEW t \in Thread, Calls(t) PROVE CacheInv'
  BY <1>0, <1>1, <1>4 DEF Calls, notify, notify_returns, swupdate_progress, progress_returns,
     send_notify_msg, send_progress_msg
<1>5. CASE InstallerThread \/ ProgressThread \/ notifier_thread
  BY <1>0, <1>5, Zenon DEF InstallerThread, wakeup, notify_start, swupdate_progress_init,
     notify_result, swupdate_progress_end, set_idle, notify_idle, Installer,
     ProgressThread, progress_send_connect_ack, log_not_acked, drop_listener, notifier_thread
<1>6. CASE NetworkThread
  BY <1>0, <1>2, <1>3, <1>6 DEF NetworkThread, trace_request, NOTIFY_STREAM, write_history,
     register_stream, stream_fails, stream_error
<1>7. CASE Clients \/ UNCHANGED vars
  BY <1>0, <1>7, Zenon DEF Clients, vars, accept_listener, progress_ipc_receive, accept_stream,
     ipc_notify_receive, accept_request, accept_poll, hang_up, accept
<1> QED
  BY <1>4, <1>5, <1>6, <1>7, NextCases

-----------------------------------------------------------------------------
LEMMA StreamInit == Init => StreamInv
<1> SUFFICES ASSUME Init PROVE StreamInv
  OBVIOUS
<1>1. ASSUME NEW c \in Stream PROVE Chain(nbuf[c], ngot[c])
  <2>1. nbuf[c] = <<>> /\ ngot[c] = 0
    BY DEF Init
  <2>2. <<>> \in Seq(Nat \ {0}) /\ Len(<<>>) = 0
    OBVIOUS
  <2> QED
    BY <2>1, <2>2 DEF Chain
<1> QED
  BY <1>1 DEF Init, StreamInv, Thread, NewStream

(* A step that sends nothing and serves nobody new.                        *)
LEMMA StreamFrame ==
  ASSUME StreamInv, UNCHANGED streams, UNCHANGED nlog, fresh' \subseteq fresh,
         \A t \in Thread : at'[t] = "nsend" => at[t] = "nsend" /\ todo'[t] = todo[t],
         \A t \in Thread : at[t] = "nsend" /\ at'[t] # "nsend" => todo[t] = {},
         pc'["network"] = "NOTIFY_STREAM" => pc["network"] = "NOTIFY_STREAM",
         pc'["network"] = "history" => pc["network"] = "history" /\ UNCHANGED <<notifymsgs, sent>>,
         pc'["network"] \in {"NOTIFY_STREAM", "history"} => UNCHANGED serving
  PROVE  StreamInv'
BY Zenon DEF StreamInv, streams, NewStream

LEMMA StreamCalls ==
  ASSUME LockInv, CacheInv, StreamInv, NEW t \in Thread, Calls(t) PROVE StreamInv'
<1> USE DEF Free, Holds, pollers, cache
<1>0. at \in [Thread -> Place] /\ todo \in [Thread -> SUBSET (Stream \cup Listener)]
  BY DEF LockInv
<1>1. CASE notify(t) \/ progress_returns(t) \/ notify_returns(t)
  <2>1. /\ UNCHANGED streams /\ UNCHANGED <<nlog, notifymsgs, fresh, todo, pc, serving, sent>>
        /\ \A u \in Thread : at'[u] = "nsend" => at[u] = "nsend"
        /\ \A u \in Thread : at[u] = "nsend" /\ at'[u] # "nsend" => todo[u] = {}
    BY <1>0, <1>1 DEF notify, progress_returns, notify_returns, clients
  <2> QED
    BY <2>1, StreamFrame
<1>2. CASE swupdate_progress(t) \/ \E c \in Listener : send_progress_msg(t, c)
  <2>1. /\ UNCHANGED streams /\ UNCHANGED <<nlog, notifymsgs, fresh, pc, serving, sent>>
        /\ \A u \in Thread : at'[u] = "nsend" <=> at[u] = "nsend"
        /\ \A u \in Thread : at[u] = "nsend" => todo'[u] = todo[u]
    BY <1>0, <1>2 DEF swupdate_progress, send_progress_msg, clients
  <2> QED
    BY <2>1, StreamFrame, Zenon
<1>3. CASE network_notifier(t)
  <2>1. \A u \in Thread : at[u] # "nsend"
    BY <1>3, BoundAssumption, Zenon DEF LockInv, network_notifier
  <2>2. pc["network"] # "history"
    BY <1>3, BoundAssumption DEF LockInv, network_notifier, Thread
  <2>3. /\ UNCHANGED <<fresh, pc, notify_conns, nbuf, ngot, serving>> /\ nlog' = nlog + 1
        /\ at'[t] = "nsend" /\ todo'[t] = notify_conns
        /\ \A u \in Thread : u # t => at'[u] = at[u]
    BY <1>0, <1>3 DEF network_notifier, clients, streams
  <2>4. \A u \in Thread : at'[u] = "nsend" => u = t
    BY <2>1, <2>3, Zenon
  <2>5. /\ nlog \in Nat /\ nlog' # 0
        /\ \A c \in notify_conns : LastOf(nbuf[c], ngot[c]) \in {0, nlog' - 1}
    <3>1. nlog \in Nat
      BY DEF CacheInv
    <3>2. \A c \in notify_conns : LastOf(nbuf[c], ngot[c]) \in {0, nlog}
      BY <2>1, Zenon DEF StreamInv
    <3>3. nlog' - 1 = nlog /\ nlog' # 0
      BY <2>3, <3>1
    <3> QED
      BY <3>1, <3>2, <3>3
  <2>6. \A c \in Stream : NewStream(c)' <=> NewStream(c)
    BY <2>3 DEF NewStream
  <2>7. pc["network"] = "NOTIFY_STREAM" => serving \in Stream
    BY DEF LockInv
  <2>8. /\ nbuf' \in [Stream -> Seq(Nat \ {0})] /\ ngot' \in [Stream -> Nat]
        /\ \A c \in Stream : Chain(nbuf'[c], ngot'[c])
    BY <2>3, Zenon DEF StreamInv
  <2>9. \A u \in Thread : at'[u] = "nsend" =>
          /\ todo'[u] \subseteq notify_conns' /\ nlog' # 0
          /\ \A c \in todo'[u] : LastOf(nbuf'[c], ngot'[c]) \in {0, nlog' - 1}
    BY <2>3, <2>4, <2>5, Zenon
  <2>10. \A c \in notify_conns' : \E u \in Thread : at'[u] = "nsend" /\ c \in todo'[u]
    BY <2>3
  <2>11. /\ \A c \in fresh' \cap Stream : NewStream(c)'
         /\ pc'["network"] = "NOTIFY_STREAM" => NewStream(serving)' /\ serving' \notin fresh'
    BY <2>3, <2>6, <2>7, Zenon DEF StreamInv
  <2>12. pc'["network"] # "history"
    BY <2>2, <2>3, Zenon
  <2> QED
    BY <2>8, <2>9, <2>10, <2>11, <2>12, Zenon DEF StreamInv
<1>4. ASSUME NEW c \in Stream, send_notify_msg(t, c) PROVE StreamInv'
  <2>1. \A u \in Thread : at[u] = "nsend" => u = t
    BY <1>4 DEF LockInv, send_notify_msg
  <2>2. pc["network"] # "history"
    BY <1>4 DEF LockInv, send_notify_msg, Thread
  <2>3. /\ UNCHANGED <<fresh, pc, nlog, ngot, at, serving>> /\ at[t] = "nsend"
        /\ todo'[t] = todo[t] \ {c} /\ c \in todo[t]
    BY <1>0, <1>4 DEF send_notify_msg, clients
  <2>4. /\ nlog \in Nat \ {0} /\ c \in notify_conns
        /\ LastOf(nbuf[c], ngot[c]) \in {0, nlog - 1}
        /\ Chain(nbuf[c], ngot[c]) /\ nbuf[c] \in Seq(Nat \ {0})
    BY <2>3, Zenon DEF StreamInv, CacheInv
  <2>5. pc["network"] = "NOTIFY_STREAM" => serving \in Stream
    BY DEF LockInv
  <2>6. CASE nbuf' = [nbuf EXCEPT ![c] = Append(@, nlog)] /\ UNCHANGED notify_conns
    <3>1. /\ Chain(Append(nbuf[c], nlog), ngot[c])
          /\ LastOf(Append(nbuf[c], nlog), ngot[c]) = nlog
      BY <2>4, ChainAppend
    <3>2. nbuf'[c] = Append(nbuf[c], nlog) /\ \A d \in Stream : d # c => nbuf'[d] = nbuf[d]
      BY <2>6, Zenon DEF StreamInv
    <3>3. nbuf' \in [Stream -> Seq(Nat \ {0})]
      BY <2>6, <3>1, Zenon DEF StreamInv, Chain
    <3>4. \A d \in Stream : Chain(nbuf'[d], ngot'[d])
      BY <2>3, <3>1, <3>2, Zenon DEF StreamInv
    <3>5. \A d \in Stream : NewStream(d) => NewStream(d)'
      BY <2>3, <2>4, <2>6, <3>2, Zenon DEF NewStream
    <3>6. \A d \in notify_conns : (\A u \in Thread : at[u] = "nsend" => d \notin todo'[u]) =>
            LastOf(nbuf'[d], ngot'[d]) \in {0, nlog}
      <4> SUFFICES ASSUME NEW d \in notify_conns, d # c,
                          \A u \in Thread : at[u] = "nsend" => d \notin todo'[u]
                   PROVE  LastOf(nbuf'[d], ngot'[d]) \in {0, nlog}
        BY <2>3, <3>1, <3>2, Zenon
      <4>1. \A u \in Thread : at[u] = "nsend" => d \notin todo[u]
        BY <2>1, <2>3, Zenon
      <4> QED
        BY <2>3, <3>2, <4>1, Zenon DEF StreamInv, LockInv
    <3>7. \A d \in todo'[t] : LastOf(nbuf'[d], ngot'[d]) \in {0, nlog - 1}
      BY <2>3, <3>2, Zenon DEF StreamInv, LockInv
    <3> QED
      BY <2>1, <2>2, <2>3, <2>5, <2>6, <3>3, <3>4, <3>5, <3>6, <3>7, Zenon DEF StreamInv
  <2>7. CASE UNCHANGED nbuf /\ notify_conns' = notify_conns \ {c}
    <3>1. \A d \in Stream : NewStream(d) => NewStream(d)'
      BY <2>3, <2>7 DEF NewStream
    <3> QED
      BY <2>1, <2>2, <2>3, <2>5, <2>7, <3>1, Zenon DEF StreamInv
  <2> QED
    BY <1>4, <2>6, <2>7 DEF send_notify_msg
<1> QED
  BY <1>1, <1>2, <1>3, <1>4 DEF Calls

(* The steps of the threads that serve nobody new.                         *)
LEMMA StreamQuiet ==
  ASSUME LockInv, StreamInv,
         \/ InstallerThread \/ ProgressThread \/ notifier_thread \/ UNCHANGED vars
         \/ trace_request \/ REQ_INSTALL \/ GET_STATUS \/ stream_fails \/ stream_error
         \/ \E c \in Listener : accept_listener(c) \/ progress_ipc_receive(c)
         \/ \E c \in Poller : accept_request(c) \/ accept_poll(c)
         \/ \E c \in Stream \cup Listener : hang_up(c)
  PROVE  StreamInv'
<1> USE DEF clients, threads, pollers, Call, Thread, cache, Answered
<1>0. /\ at \in [Thread -> Place] /\ pc \in [Thread -> PC]
      /\ todo \in [Thread -> SUBSET (Stream \cup Listener)]
      /\ pc["progress"] \in {"wait", "ack"} => at["progress"] = "out"
  BY DEF LockInv
<1>1. /\ UNCHANGED streams /\ UNCHANGED nlog /\ fresh' \subseteq fresh
      /\ \A t \in Thread : at'[t] = "nsend" <=> at[t] = "nsend"
      /\ \A t \in Thread : at[t] = "nsend" => todo'[t] = todo[t]
      /\ pc'["network"] \in {"NOTIFY_STREAM", "history"} =>
           UNCHANGED <<notifymsgs, sent, serving>> /\ pc'["network"] = pc["network"]
  <2>1. CASE InstallerThread \/ notifier_thread
    BY <1>0, <2>1, Zenon DEF InstallerThread, wakeup, notify_start, swupdate_progress_init,
       notify_result, swupdate_progress_end, set_idle, notify_idle, Installer, notifier_thread
  <2>2. CASE ProgressThread
    BY <1>0, <2>2, Zenon DEF ProgressThread, progress_send_connect_ack, log_not_acked, drop_listener
  <2>3. CASE trace_request \/ REQ_INSTALL \/ GET_STATUS \/ stream_fails \/ stream_error
    BY <1>0, <2>3, Zenon DEF trace_request, REQ_INSTALL, GET_STATUS, stream_fails, stream_error
  <2>4. CASE \E c \in Listener : accept_listener(c) \/ progress_ipc_receive(c)
    BY <1>0, <2>4, Zenon DEF accept_listener, progress_ipc_receive
  <2>5. CASE (\E c \in Poller : accept_request(c) \/ accept_poll(c)) \/ UNCHANGED vars
    BY <1>0, <2>5, Zenon DEF accept_request, accept_poll, accept, vars
  <2>6. CASE \E c \in Stream \cup Listener : hang_up(c)
    BY <1>0, <2>6 DEF hang_up
  <2> QED
    BY <2>1, <2>2, <2>3, <2>4, <2>5, <2>6, Zenon
<1> QED
  BY <1>1, StreamFrame, Zenon

(* A client of NOTIFY_STREAM is served.                                    *)
LEMMA StreamServed ==
  ASSUME LockInv, CacheInv, StreamInv,
         \/ NOTIFY_STREAM \/ write_history \/ register_stream
         \/ \E c \in Stream : accept_stream(c)
  PROVE  StreamInv'
<1> USE DEF clients, threads, pollers, cache, Free
<1>0. /\ at \in [Thread -> Place] /\ pc \in [Thread -> PC] /\ "network" \in Thread
      /\ pc["network"] \in {"NOTIFY_STREAM", "history"} => serving \in Stream
  BY DEF LockInv, Thread
<1>1. ASSUME NEW c \in Stream, accept_stream(c) PROVE StreamInv'
  <2>1. /\ UNCHANGED <<at, todo, nlog, notify_conns, nbuf, ngot>> /\ fresh' = fresh \ {c}
        /\ pc'["network"] = "NOTIFY_STREAM" /\ serving' = c /\ NewStream(c)
    BY <1>0, <1>1, Zenon DEF accept_stream, accept, streams, StreamInv
  <2> QED
    BY <2>1, Zenon DEF StreamInv, NewStream
<1>2. CASE NOTIFY_STREAM
  <2>1. /\ UNCHANGED <<at, todo, nlog, notifymsgs, notify_conns, nbuf, ngot, fresh, serving>>
        /\ pc'["network"] = "history" /\ sent' = 0 /\ NewStream(serving)
        /\ serving \notin fresh
    BY <1>0, <1>2, Zenon DEF NOTIFY_STREAM, streams, StreamInv
  <2>2. LastOf(nbuf[serving], ngot[serving]) = 0
    BY <2>1 DEF NewStream, LastOf
  <2>3. Len(notifymsgs) \in Nat
    BY LenProperties DEF CacheInv
  <2>4. 0 \in 0..Len(notifymsgs)
    BY <2>3
  <2> QED
    BY <2>1, <2>2, <2>4, Zenon DEF StreamInv, NewStream
<1>3. CASE write_history
  <2> DEFINE n == notifymsgs[sent + 1].id
  <2>0. LastOf(nbuf[serving], ngot[serving]) = IF sent = 0 THEN 0 ELSE notifymsgs[sent].id
    BY <1>3, Zenon DEF write_history, StreamInv
  <2>1. /\ UNCHANGED <<at, todo, nlog, notifymsgs, notify_conns, ngot, fresh, serving, pc>>
        /\ pc["network"] = "history" /\ sent' = sent + 1
        /\ nbuf' = [nbuf EXCEPT ![serving] = Append(@, n)]
        /\ serving \in Stream /\ serving \notin notify_conns \cup fresh
        /\ sent \in 0..Len(notifymsgs) /\ sent < Len(notifymsgs)
        /\ Chain(nbuf[serving], ngot[serving])
    BY <1>0, <1>3, Zenon DEF write_history, StreamInv
  <2>2. Len(notifymsgs) \in Nat /\ sent + 1 \in 1..Len(notifymsgs) /\ sent \in Nat
    <3>1. Len(notifymsgs) \in Nat
      BY LenProperties DEF CacheInv
    <3>2. sent \in 0..Len(notifymsgs) /\ sent < Len(notifymsgs)
      BY <2>1
    <3> QED
      BY <3>1, <3>2
  <2>3. n = nlog - Len(notifymsgs) + (sent + 1) /\ n \in Nat \ {0}
    <3>1. notifymsgs[sent + 1] \in Message
      BY <2>2, ElementOfSeq DEF CacheInv
    <3> QED
      BY <2>2, <3>1 DEF CacheInv, Message
  <2> HIDE DEF n
  <2>4. LastOf(nbuf[serving], ngot[serving]) \in {0, n - 1}
    <3>1. CASE sent = 0
      BY <2>0, <3>1
    <3>2. CASE sent # 0
      <4>0. nlog \in Nat
        BY DEF CacheInv
      <4>1. sent \in 1..Len(notifymsgs)
        BY <2>2, <3>2
      <4>2. notifymsgs[sent].id = nlog - Len(notifymsgs) + sent
        BY <4>1 DEF CacheInv
      <4>3. LastOf(nbuf[serving], ngot[serving]) = notifymsgs[sent].id
        BY <2>0, <3>2
      <4> QED
        BY <2>2, <2>3, <4>0, <4>2, <4>3
    <3> QED
      BY <3>1, <3>2
  <2>5. /\ Chain(Append(nbuf[serving], n), ngot[serving])
        /\ LastOf(Append(nbuf[serving], n), ngot[serving]) = n
    BY <2>1, <2>3, <2>4, ChainAppend
  <2>6. /\ nbuf'[serving] = Append(nbuf[serving], n)
        /\ \A d \in Stream : d # serving => nbuf'[d] = nbuf[d]
    BY <2>1, Zenon DEF StreamInv
  <2>7. nbuf' \in [Stream -> Seq(Nat \ {0})]
    BY <2>1, <2>5, Zenon DEF StreamInv, Chain
  <2>8. \A d \in Stream : Chain(nbuf'[d], ngot'[d])
    BY <2>1, <2>5, <2>6, Zenon DEF StreamInv
  <2>9. \A d \in notify_conns : LastOf(nbuf'[d], ngot'[d]) = LastOf(nbuf[d], ngot[d])
    BY <2>1, <2>6 DEF LockInv
  <2>10. \A d \in fresh \cap Stream : NewStream(d)'
    BY <2>1, <2>6, Zenon DEF StreamInv, NewStream
  <2>11. \A t \in Thread : at[t] = "nsend" => todo[t] \subseteq notify_conns
    BY Zenon DEF StreamInv
  <2>12. sent' \in 0..Len(notifymsgs') /\ sent' # 0 /\ n = notifymsgs'[sent'].id
    BY <2>1, <2>2 DEF n
  <2> QED
    BY <2>1, <2>5, <2>6, <2>7, <2>8, <2>9, <2>10, <2>11, <2>12, Zenon DEF StreamInv
<1>4. CASE register_stream
  <2>1. /\ UNCHANGED <<at, todo, nlog, notifymsgs, nbuf, ngot, fresh>>
        /\ pc["network"] = "history" /\ pc'["network"] = "wait"
        /\ notify_conns' = notify_conns \cup {serving} /\ serving \in Stream
        /\ serving \notin notify_conns \cup fresh
        /\ sent = Len(notifymsgs)
    BY <1>0, <1>4, Zenon DEF register_stream, StreamInv
  <2>2. LastOf(nbuf[serving], ngot[serving]) \in {0, nlog}
    <3>0. Len(notifymsgs) \in Nat /\ nlog \in Nat
      BY LenProperties, Zenon DEF CacheInv
    <3>1. CASE sent = 0
      BY <2>1, <3>1, Zenon DEF StreamInv
    <3>2. CASE sent # 0
      <4>1. sent \in 1..Len(notifymsgs)
        BY <2>1, <3>0, <3>2
      <4>2. notifymsgs[sent].id = nlog
        BY <2>1, <3>0, <4>1 DEF CacheInv
      <4> QED
        BY <2>1, <3>2, <4>2, Zenon DEF StreamInv
    <3> QED
      BY <3>1, <3>2
  <2>3. \A t \in Thread : at[t] # "nsend"
    BY <1>0, <2>1, Zenon DEF LockInv
  <2>4. \A d \in fresh \cap Stream : NewStream(d)'
    BY <2>1, Zenon DEF StreamInv, NewStream
  <2> QED
    BY <2>1, <2>2, <2>3, <2>4, Zenon DEF StreamInv
<1> QED
  BY <1>1, <1>2, <1>3, <1>4

(* A client reads.                                                         *)
LEMMA StreamReads ==
  ASSUME LockInv, StreamInv, NEW c \in Stream, ipc_notify_receive(c)
  PROVE  /\ StreamInv'
         /\ ngot[c] = 0 \/ ngot'[c] = ngot[c] + 1
         /\ \A d \in Stream : d # c => ngot'[d] = ngot[d]
<1>1. /\ UNCHANGED <<nlog, notifymsgs, notify_conns, fresh, at, todo, pc, serving, sent>>
      /\ nbuf[c] # <<>> /\ ngot'[c] = Head(nbuf[c]) /\ nbuf'[c] = Tail(nbuf[c])
      /\ \A d \in Stream : d # c => nbuf'[d] = nbuf[d] /\ ngot'[d] = ngot[d]
  BY Zenon DEF ipc_notify_receive, StreamInv, cache, clients, threads, pollers
<1>2. /\ Chain(nbuf'[c], ngot'[c]) /\ LastOf(nbuf'[c], ngot'[c]) = LastOf(nbuf[c], ngot[c])
      /\ ngot[c] = 0 \/ ngot'[c] = ngot[c] + 1
  <2>1. Chain(nbuf[c], ngot[c])
    BY Zenon DEF StreamInv
  <2> QED
    BY <1>1, <2>1, ChainTail, Zenon
<1>3. nbuf' \in [Stream -> Seq(Nat \ {0})] /\ ngot' \in [Stream -> Nat]
  BY <1>1, <1>2, Zenon DEF ipc_notify_receive, StreamInv, Chain
<1>4. \A d \in Stream : LastOf(nbuf'[d], ngot'[d]) = LastOf(nbuf[d], ngot[d])
  BY <1>1, <1>2, Zenon
<1>5. \A d \in Stream : NewStream(d) => NewStream(d)'
  BY <1>1 DEF NewStream
<1>6. /\ notify_conns \subseteq Stream
      /\ pc["network"] \in {"NOTIFY_STREAM", "history"} => serving \in Stream
  BY DEF LockInv
<1>7. \A d \in Stream : Chain(nbuf'[d], ngot'[d])
  BY <1>1, <1>2, Zenon DEF StreamInv
<1>8. StreamInv'
  BY <1>1, <1>3, <1>4, <1>5, <1>6, <1>7, Zenon DEF StreamInv
<1> QED
  BY <1>1, <1>2, <1>8, Zenon

LEMMA StreamNext == LockInv /\ CacheInv /\ StreamInv /\ [Next]_vars => StreamInv'
<1> SUFFICES ASSUME LockInv, CacheInv, StreamInv, [Next]_vars PROVE StreamInv'
  OBVIOUS
<1>1. CASE \E t \in Thread : Calls(t)
  BY <1>1, StreamCalls
<1>2. CASE InstallerThread \/ ProgressThread \/ notifier_thread \/ UNCHANGED vars
  BY <1>2, StreamQuiet
<1>3. CASE NetworkThread
  BY <1>3, StreamQuiet, StreamServed DEF NetworkThread
<1>4. CASE Clients
  <2>1. ASSUME NEW c \in Stream, ipc_notify_receive(c) PROVE StreamInv'
    BY <2>1, StreamReads
  <2>2. CASE \E c \in Listener : accept_listener(c) \/ progress_ipc_receive(c)
    BY <2>2, StreamQuiet
  <2>3. CASE \E c \in Poller : accept_request(c) \/ accept_poll(c)
    BY <2>3, StreamQuiet
  <2>4. CASE \E c \in Stream \cup Listener : hang_up(c)
    BY <2>4, StreamQuiet
  <2>5. CASE \E c \in Stream : accept_stream(c)
    BY <2>5, StreamServed
  <2> QED
    BY <1>4, <2>1, <2>2, <2>3, <2>4, <2>5 DEF Clients
<1> QED
  BY <1>1, <1>2, <1>3, <1>4, NextCases

-----------------------------------------------------------------------------
Inv == LockInv /\ ProgInv /\ CacheInv /\ StreamInv

LEMMA Invariance == Spec => []Inv
<1>1. Init => Inv
  BY LockInit, ProgInit, CacheInit, StreamInit DEF Inv
<1>2. Inv /\ [Next]_vars => Inv'
  BY LockNext, ProgNext, CacheNext, StreamNext DEF Inv
<1> QED
  BY <1>1, <1>2, PTL DEF Spec

(* nrmsgs counts the cache and the cache keeps its limit, whatever the     *)
(* threads do (network_notifier, GET_STATUS, cleanum_msg_list).            *)
THEOREM CacheCorrect == Spec => []CacheBounded
<1>1. Inv => CacheBounded
  BY DEF Inv, CacheInv
<1> QED
  BY <1>1, Invariance, PTL

(* Only a client that reads changes what it has seen.                      *)
LEMMA WhoReads ==
  ASSUME [Next]_vars
  PROVE  /\ UNCHANGED ngot \/ \E c \in Stream : ipc_notify_receive(c)
         /\ UNCHANGED pgot \/ \E c \in Listener : progress_ipc_receive(c)
<1> USE DEF streams, progress
<1>1. ASSUME NEW t \in Thread, Calls(t) PROVE UNCHANGED <<ngot, pgot>>
  BY <1>1, Zenon DEF Calls, notify, network_notifier, notify_returns, swupdate_progress,
     progress_returns, send_notify_msg, send_progress_msg
<1>2. CASE InstallerThread \/ ProgressThread \/ notifier_thread
  BY <1>2, Zenon DEF InstallerThread, wakeup, notify_start, swupdate_progress_init,
     notify_result, swupdate_progress_end, set_idle, notify_idle, Installer,
     ProgressThread, progress_send_connect_ack, log_not_acked, drop_listener, notifier_thread
<1>3. CASE NetworkThread
  BY <1>3, Zenon DEF NetworkThread, trace_request, REQ_INSTALL, GET_STATUS, NOTIFY_STREAM,
     write_history, register_stream, stream_fails, stream_error
<1>4. CASE Clients \/ UNCHANGED vars
  BY <1>4, Zenon DEF Clients, vars, accept_listener, progress_ipc_receive, accept_stream,
     ipc_notify_receive, accept_request, accept_poll, hang_up, accept
<1> QED
  BY <1>1, <1>2, <1>3, <1>4, NextCases

(* A client of NOTIFY_STREAM sees the notifications of the cache and then  *)
(* all later ones, none twice and none missing: the history is written and *)
(* the client registered under msglock, which every sender holds.          *)
THEOREM StreamCorrect == Spec => StreamNoGap
<1> DEFINE Step == \A c \in Stream : ngot'[c] # ngot[c] => ngot[c] = 0 \/ ngot'[c] = ngot[c] + 1
<1>1. Inv /\ [Next]_vars => [Step]_vars
  BY WhoReads, StreamReads DEF Inv
<1> QED
  BY <1>1, Invariance, PTL DEF Spec, StreamNoGap

(* A listener of the progress interface sees every message from the moment *)
(* it is acknowledged or it is dropped (send_progress_msg): messages are   *)
(* numbered, sent and listeners registered under the same lock.            *)
THEOREM ProgressCorrect == Spec => ProgressNoGap
<1> DEFINE Step == \A c \in Listener : pgot'[c] # pgot[c] => pgot[c] = 0 \/ pgot'[c] = pgot[c] + 1
<1>1. ASSUME Inv, NEW c \in Listener, progress_ipc_receive(c)
      PROVE  /\ pgot[c] = 0 \/ pgot'[c] = pgot[c] + 1
             /\ \A d \in Listener : d # c => pgot'[d] = pgot[d]
  <2>1. /\ pbuf[c] # <<>> /\ pgot'[c] = Head(pbuf[c])
        /\ \A d \in Listener : d # c => pgot'[d] = pgot[d]
    BY <1>1, Zenon DEF progress_ipc_receive, Inv, ProgInv
  <2>2. Chain(pbuf[c], pgot[c])
    BY <1>1, Zenon DEF Inv, ProgInv
  <2> QED
    BY <2>1, <2>2, ChainTail, Zenon
<1>2. Inv /\ [Next]_vars => [Step]_vars
  BY <1>1, WhoReads
<1> QED
  BY <1>2, Invariance, PTL DEF Spec, ProgressNoGap
=============================================================================
