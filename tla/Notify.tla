------------------------------- MODULE Notify -------------------------------
(***************************************************************************)
(* How the daemon tells others what it does: notify and its notifiers      *)
(* (core/notifier.c), the cache of notifications and the clients that      *)
(* follow it (core/network_thread.c), the progress interface               *)
(* (core/progress_thread.c) and the polling of GET_STATUS                  *)
(* (ipc/network_ipc.c).                                                    *)
(*                                                                         *)
(* Four threads take four locks: stream_mutex, clients_mutex (held while   *)
(* the notifiers run), msglock (the cache) and the lock of the progress    *)
(* structure.  Messages are numbered in the order they are sent.           *)
(***************************************************************************)
EXTENDS Naturals, Sequences

CONSTANTS
  Poller,        \* clients that ask for an update and poll its end
  Stream,        \* clients of NOTIFY_STREAM
  Listener,      \* clients of the progress interface
  Nobody,        \* owner of a free lock
  NumCached,     \* NUM_CACHED_MESSAGES
  BufSize,       \* messages that fit into a socket buffer
  SubMessages,   \* messages the subprocesses send at most
  Hasty          \* listeners that may hang up before they are acknowledged

Thread == {"installer", "notifier", "network", "progress"}
Lock == {"stream", "clients", "msg", "prog"}

ASSUME BoundAssumption == /\ NumCached \in Nat \ {0} /\ BufSize \in Nat \ {0}
                          /\ SubMessages \in Nat
                          /\ Hasty \subseteq Listener
                          /\ Nobody \notin Thread \cup Poller

VARIABLES
  owner,         \* who holds each lock
  pc,            \* where each thread is in its own loop
  at,            \* where it is in notify or in a call of the progress interface
  arg,           \* status it sends: IDLE, RUN for any other one the daemon
                 \* sends, EVENT for what a subprocess sends
  todo,          \* connections it still has to send to
  \* the cache
  notifymsgs, nrmsgs, nlog, notify_conns, nbuf, ngot,
  \* the progress interface
  plog, conns, pbuf, pgot,
  fresh, hup,    \* clients that did not connect yet, and that hung up
  \* inst and the subprocesses
  status, stream_wkup, submsgs,
  \* the pollers and the message the network thread serves
  ppc, serving,
  sent           \* notifications of the cache it has sent to a new client

threads == <<owner, pc, at, arg, todo>>
cache == <<notifymsgs, nrmsgs, nlog>>
streams == <<notify_conns, nbuf, ngot>>
progress == <<plog, conns, pbuf, pgot>>
clients == <<fresh, hup>>
inst == <<status, stream_wkup>>
pollers == <<ppc, serving, sent>>
vars == <<threads, cache, streams, progress, clients, inst, submsgs, pollers>>

(* Any of the clients may be one that never comes, which is as good as one that
   hung up. *)
Init ==
  /\ owner = [l \in Lock |-> Nobody]
  /\ pc = [t \in Thread |-> "wait"]
  /\ at = [t \in Thread |-> "out"]
  /\ arg = [t \in Thread |-> "IDLE"]
  /\ todo = [t \in Thread |-> {}]
  /\ notifymsgs = <<>> /\ nrmsgs = 0 /\ nlog = 0
  /\ notify_conns = {}
  /\ nbuf = [c \in Stream |-> <<>>] /\ ngot = [c \in Stream |-> 0]
  /\ plog = 0 /\ conns = {}
  /\ fresh \in SUBSET (Stream \cup Listener)
  /\ hup = (Stream \cup Listener) \ fresh
  /\ pbuf = [c \in Listener |-> <<>>] /\ pgot = [c \in Listener |-> 0]
  /\ status = "IDLE" /\ stream_wkup = FALSE
  /\ submsgs \in 0..SubMessages
  /\ ppc \in [Poller -> {"start", "done"}]
  /\ serving = Nobody
  /\ sent = 0

Free(l) == owner[l] = Nobody
Holds(t, l) == owner[l] = t
(* t calls notify (entry "clients") or the progress interface ("prog") with
   status s and goes on at p when the call returns. *)
Call(t, entry, s, p) ==
  /\ at[t] = "out"
  /\ at' = [at EXCEPT ![t] = entry]
  /\ arg' = [arg EXCEPT ![t] = s]
  /\ pc' = [pc EXCEPT ![t] = p]

-----------------------------------------------------------------------------
(* notify, for every thread *)

(* The lock of the list of notifiers.  process_notifier and progress_notifier
   go to the progress interface with what comes from a subprocess; a download
   percentage that did not change is dropped there.  All go to
   network_notifier. *)
notify(t) ==
  /\ at[t] = "clients"
  /\ Free("clients")
  /\ owner' = [owner EXCEPT !["clients"] = t]
  /\ \E next \in {"prog", "msg"} :
       /\ arg[t] # "EVENT" => next = "msg"
       /\ at' = [at EXCEPT ![t] = next]
  /\ UNCHANGED <<pc, arg, todo, cache, streams, progress, clients, inst,
                 submsgs, pollers>>

(* network_notifier: into the cache, which drops its oldest entry, ... *)
network_notifier(t) ==
  /\ at[t] = "msg"
  /\ Free("msg")
  /\ owner' = [owner EXCEPT !["msg"] = t]
  /\ at' = [at EXCEPT ![t] = "nsend"]
  /\ todo' = [todo EXCEPT ![t] = notify_conns]
  /\ nlog' = nlog + 1
  /\ LET full == nrmsgs + 1 > NumCached
     IN /\ notifymsgs' = Append(IF full THEN Tail(notifymsgs) ELSE notifymsgs,
                                [id |-> nlog + 1, st |-> arg[t]])
        /\ nrmsgs' = IF full THEN nrmsgs ELSE nrmsgs + 1
  /\ UNCHANGED <<pc, arg, streams, progress, clients, inst,
                 submsgs, pollers>>

(* ... and to everybody who follows: send blocks while the buffer is full; a
   client that is gone is removed. *)
send_notify_msg(t, c) ==
  /\ at[t] = "nsend"
  /\ c \in todo[t]
  /\ IF c \in hup
     THEN notify_conns' = notify_conns \ {c} /\ UNCHANGED nbuf
     ELSE /\ Len(nbuf[c]) < BufSize
          /\ nbuf' = [nbuf EXCEPT ![c] = Append(@, nlog)]
          /\ UNCHANGED notify_conns
  /\ todo' = [todo EXCEPT ![t] = @ \ {c}]
  /\ UNCHANGED <<owner, pc, at, arg, cache, ngot, progress, clients, inst, submsgs,
                 pollers>>

notify_returns(t) ==
  /\ at[t] = "nsend"
  /\ todo[t] = {}
  /\ owner' = [owner EXCEPT !["msg"] = Nobody, !["clients"] = Nobody]
  /\ at' = [at EXCEPT ![t] = "out"]
  /\ arg' = [arg EXCEPT ![t] = "IDLE"]
  /\ UNCHANGED <<pc, todo, cache, streams, progress, clients, inst,
                 submsgs, pollers>>

-----------------------------------------------------------------------------
(* The progress interface: swupdate_progress_init, _inc_step, _update, _info,
   _end and _swupdate_download_update all send one message under the lock. *)

swupdate_progress(t) ==
  /\ at[t] = "prog"
  /\ Free("prog")
  /\ owner' = [owner EXCEPT !["prog"] = t]
  /\ at' = [at EXCEPT ![t] = "psend"]
  /\ todo' = [todo EXCEPT ![t] = conns]
  /\ plog' = plog + 1
  /\ UNCHANGED <<pc, arg, cache, streams, conns, pbuf, pgot, clients, inst,
                 submsgs, pollers>>

send_progress_msg_Skip(t, c) ==   \* mutant: a slow listener misses a message
  /\ at[t] = "psend"
  /\ c \in todo[t]
  /\ pbuf' = IF Len(pbuf[c]) < BufSize THEN [pbuf EXCEPT ![c] = Append(@, plog)] ELSE pbuf
  /\ todo' = [todo EXCEPT ![t] = @ \ {c}]
  /\ UNCHANGED <<owner, pc, at, arg, cache, streams, plog, conns, pgot, clients, inst,
                 submsgs, pollers>>

(* send does not block.  A listener whose buffer stays full for five attempts
   and one that is gone are dropped. *)
send_progress_msg(t, c) ==
  /\ at[t] = "psend"
  /\ c \in todo[t]
  /\ \/ /\ Len(pbuf[c]) < BufSize /\ c \notin hup
        /\ pbuf' = [pbuf EXCEPT ![c] = Append(@, plog)]
        /\ UNCHANGED conns
     \/ /\ Len(pbuf[c]) = BufSize \/ c \in hup
        /\ conns' = conns \ {c}
        /\ UNCHANGED pbuf
  /\ todo' = [todo EXCEPT ![t] = @ \ {c}]
  /\ UNCHANGED <<owner, pc, at, arg, cache, streams, plog, pgot, clients, inst,
                 submsgs, pollers>>

(* Back to the caller, or to the next notifier. *)
progress_returns(t) ==
  /\ at[t] = "psend"
  /\ todo[t] = {}
  /\ owner' = [owner EXCEPT !["prog"] = Nobody]
  /\ at' = [at EXCEPT ![t] = IF Holds(t, "clients") THEN "msg" ELSE "out"]
  /\ arg' = [arg EXCEPT ![t] = IF Holds(t, "clients") THEN @ ELSE "IDLE"]
  /\ UNCHANGED <<pc, todo, cache, streams, progress, clients, inst,
                 submsgs, pollers>>

(* progress_bar_thread *)
accept_listener(c) ==
  /\ pc["progress"] = "wait"
  /\ c \in fresh \cap Listener
  /\ fresh' = fresh \ {c}
  /\ pc' = [pc EXCEPT !["progress"] = "ack"]
  /\ todo' = [todo EXCEPT !["progress"] = {c}]
  /\ UNCHANGED <<owner, at, arg, cache, streams, progress, hup, inst, submsgs, pollers>>

(* The ACK is sent and the listener registered under the lock.  If it is gone
   this is logged twice, under the lock as well. *)
progress_send_connect_ack(c) ==
  /\ pc["progress"] = "ack"
  /\ at["progress"] = "out"
  /\ c \in todo["progress"]
  /\ Free("prog")
  /\ IF c \in hup
     THEN /\ owner' = [owner EXCEPT !["prog"] = "progress"]
          /\ Call("progress", "clients", "RUN", "notAcked")
          /\ UNCHANGED conns
     ELSE /\ conns' = conns \cup {c}
          /\ pc' = [pc EXCEPT !["progress"] = "wait"]
          /\ UNCHANGED <<owner, at, arg>>
  /\ todo' = [todo EXCEPT !["progress"] = {}]
  /\ UNCHANGED <<cache, streams, plog, pbuf, pgot, clients, inst, submsgs, pollers>>

log_not_acked ==
  /\ pc["progress"] = "notAcked"
  /\ Call("progress", "clients", "RUN", "drop")
  /\ UNCHANGED <<owner, todo, cache, streams, progress, clients, inst, submsgs, pollers>>

drop_listener ==
  /\ pc["progress"] = "drop"
  /\ at["progress"] = "out"
  /\ owner' = [owner EXCEPT !["prog"] = Nobody]
  /\ pc' = [pc EXCEPT !["progress"] = "wait"]
  /\ UNCHANGED <<at, arg, todo, cache, streams, progress, clients, inst, submsgs,
                 pollers>>

-----------------------------------------------------------------------------
(* The other threads *)

(* notifier_thread: what a subprocess logs, its events and the percentage it
   downloaded *)
notifier_thread ==
  /\ submsgs > 0
  /\ submsgs' = submsgs - 1
  /\ Call("notifier", "clients", "EVENT", "wait")
  /\ UNCHANGED <<owner, todo, cache, streams, progress, clients, inst, pollers>>

(* network_initializer, what it tells and when *)
Installer(from, entry, s, to) ==
  /\ pc["installer"] = from
  /\ Call("installer", entry, s, to)
  /\ UNCHANGED <<owner, todo, cache, streams, progress, clients, inst, submsgs, pollers>>

wakeup ==
  /\ pc["installer"] = "wait"
  /\ at["installer"] = "out"
  /\ Free("stream")
  /\ stream_wkup
  /\ stream_wkup' = FALSE
  /\ status' = "RUN"
  /\ pc' = [pc EXCEPT !["installer"] = "start"]
  /\ UNCHANGED <<owner, at, arg, todo, cache, streams, progress, clients,
                 submsgs, pollers>>

notify_start == Installer("start", "clients", "RUN", "init")
swupdate_progress_init == Installer("init", "prog", "RUN", "result")
notify_result == Installer("result", "clients", "RUN", "end")
swupdate_progress_end == Installer("end", "prog", "RUN", "idle")

set_idle ==
  /\ pc["installer"] = "idle"
  /\ at["installer"] = "out"
  /\ Free("stream")
  /\ status' = "IDLE"
  /\ pc' = [pc EXCEPT !["installer"] = "sleep"]
  /\ UNCHANGED <<owner, at, arg, todo, cache, streams, progress, clients,
                 stream_wkup, submsgs, pollers>>

notify_idle == Installer("sleep", "clients", "IDLE", "wait")

-----------------------------------------------------------------------------
(* network_thread *)

(* A message is read and stream_mutex taken. *)
accept(c, m) ==
  /\ pc["network"] = "wait"
  /\ Free("stream")
  /\ owner' = [owner EXCEPT !["stream"] = "network"]
  /\ pc' = [pc EXCEPT !["network"] = m]
  /\ serving' = c
  /\ UNCHANGED <<at, arg, todo, cache, streams, progress, hup, inst, submsgs>>

accept_request(c) ==
  /\ ppc[c] = "start"
  /\ accept(c, "REQ_INSTALL")
  /\ ppc' = [ppc EXCEPT ![c] = "asked"]
  /\ UNCHANGED <<fresh, sent>>

accept_poll(c) ==
  /\ ppc[c] = "poll"
  /\ accept(c, "GET_STATUS")
  /\ ppc' = [ppc EXCEPT ![c] = "asked"]
  /\ UNCHANGED <<fresh, sent>>

accept_stream(c) ==
  /\ c \in fresh \cap Stream
  /\ accept(c, "NOTIFY_STREAM")
  /\ fresh' = fresh \ {c}
  /\ UNCHANGED <<ppc, sent>>

(* The answer is written, stream_mutex released.  m is free again. *)
Answered ==
  /\ owner' = [owner EXCEPT !["stream"] = Nobody]
  /\ pc' = [pc EXCEPT !["network"] = "wait"]
  /\ serving' = Nobody

(* "Incoming network request: processing..." *)
trace_request ==
  /\ pc["network"] = "REQ_INSTALL"
  /\ Call("network", "clients", "RUN", "request")
  /\ UNCHANGED <<owner, todo, cache, streams, progress, clients, inst, submsgs, pollers>>

(* REQ_INSTALL, with cleanum_msg_list *)
REQ_INSTALL ==
  /\ pc["network"] = "request"
  /\ at["network"] = "out"
  /\ IF status = "IDLE"
     THEN /\ Free("msg")
          /\ notifymsgs' = <<>> /\ nrmsgs' = 0
          /\ stream_wkup' = TRUE
          /\ ppc' = [ppc EXCEPT ![serving] = "poll"]
     ELSE /\ ppc' = [ppc EXCEPT ![serving] = "done"]
          /\ UNCHANGED <<notifymsgs, nrmsgs, stream_wkup>>
  /\ Answered
  /\ UNCHANGED <<at, arg, todo, nlog, streams, progress, clients, status,
                 submsgs, sent>>

GET_STATUS_Keep ==   \* mutant: the notification stays in the cache
  /\ pc["network"] = "GET_STATUS"
  /\ Free("msg")
  /\ LET current == IF notifymsgs # <<>> THEN Head(notifymsgs).st ELSE status
     IN ppc' = [ppc EXCEPT ![serving] = IF current = "IDLE" THEN "done" ELSE "poll"]
  /\ Answered
  /\ UNCHANGED <<at, arg, todo, cache, streams, progress, clients, inst, submsgs, sent>>

GET_STATUS_Count ==   \* mutant: forgets to count down
  /\ pc["network"] = "GET_STATUS"
  /\ Free("msg")
  /\ LET current == IF notifymsgs # <<>> THEN Head(notifymsgs).st ELSE status
     IN ppc' = [ppc EXCEPT ![serving] = IF current = "IDLE" THEN "done" ELSE "poll"]
  /\ notifymsgs' = IF notifymsgs # <<>> THEN Tail(notifymsgs) ELSE notifymsgs
  /\ Answered
  /\ UNCHANGED <<at, arg, todo, nrmsgs, nlog, streams, progress, clients, inst,
                 submsgs, sent>>

(* GET_STATUS: the first notification in the cache, or the status if there is
   none.  ipc_wait_for_complete asks again until it is told IDLE. *)
GET_STATUS ==
  /\ pc["network"] = "GET_STATUS"
  /\ Free("msg")
  /\ LET current == IF notifymsgs # <<>> THEN Head(notifymsgs).st ELSE status
     IN ppc' = [ppc EXCEPT ![serving] = IF current = "IDLE" THEN "done" ELSE "poll"]
  /\ notifymsgs' = IF notifymsgs # <<>> THEN Tail(notifymsgs) ELSE notifymsgs
  /\ nrmsgs' = IF notifymsgs # <<>> THEN nrmsgs - 1 ELSE nrmsgs
  /\ Answered
  /\ UNCHANGED <<at, arg, todo, nlog, streams, progress, clients, inst, submsgs, sent>>

NOTIFY_STREAM_Unlocked ==   \* mutant: the cache is not locked
  /\ pc["network"] = "NOTIFY_STREAM"
  /\ serving \notin hup
  /\ Free("msg")
  /\ pc' = [pc EXCEPT !["network"] = "history"]
  /\ sent' = 0
  /\ UNCHANGED <<owner, at, arg, todo, cache, streams, progress, clients, inst,
                 submsgs, ppc, serving>>

(* NOTIFY_STREAM: the request is acknowledged and, under msglock, *)
NOTIFY_STREAM ==
  /\ pc["network"] = "NOTIFY_STREAM"
  /\ serving \notin hup
  /\ Free("msg")
  /\ owner' = [owner EXCEPT !["msg"] = "network"]
  /\ pc' = [pc EXCEPT !["network"] = "history"]
  /\ sent' = 0
  /\ UNCHANGED <<at, arg, todo, cache, streams, progress, clients, inst, submsgs,
                 ppc, serving>>

(* the new client is sent what is in the cache *)
write_history ==
  /\ pc["network"] = "history"
  /\ sent < Len(notifymsgs)
  /\ serving \notin hup
  /\ Len(nbuf[serving]) < BufSize
  /\ nbuf' = [nbuf EXCEPT ![serving] = Append(@, notifymsgs[sent + 1].id)]
  /\ sent' = sent + 1
  /\ UNCHANGED <<threads, cache, notify_conns, ngot, progress, clients, inst,
                 submsgs, ppc, serving>>

register_stream_Locked ==   \* mutant: msglock is not released
  /\ pc["network"] = "history"
  /\ sent = Len(notifymsgs)
  /\ notify_conns' = notify_conns \cup {serving}
  /\ owner' = [owner EXCEPT !["stream"] = Nobody]
  /\ pc' = [pc EXCEPT !["network"] = "wait"]
  /\ serving' = Nobody /\ sent' = 0
  /\ UNCHANGED <<at, arg, todo, cache, nbuf, ngot, progress, clients, inst, submsgs,
                 ppc>>

(* and then registered, *)
register_stream ==
  /\ pc["network"] = "history"
  /\ sent = Len(notifymsgs)
  /\ notify_conns' = notify_conns \cup {serving}
  /\ owner' = [owner EXCEPT !["msg"] = Nobody, !["stream"] = Nobody]
  /\ pc' = [pc EXCEPT !["network"] = "wait"]
  /\ serving' = Nobody /\ sent' = 0
  /\ UNCHANGED <<at, arg, todo, cache, nbuf, ngot, progress, clients, inst, submsgs,
                 ppc>>

(* or closed, with an error logged after msglock was released. *)
stream_fails ==
  /\ serving \in hup
  /\ \/ pc["network"] = "NOTIFY_STREAM"
     \/ pc["network"] = "history" /\ sent < Len(notifymsgs)
  /\ owner' = [owner EXCEPT !["msg"] = IF @ = "network" THEN Nobody ELSE @]
  /\ Call("network", "clients", "RUN", "streamError")
  /\ UNCHANGED <<todo, cache, streams, progress, clients, inst, submsgs, pollers>>

stream_error ==
  /\ pc["network"] = "streamError"
  /\ at["network"] = "out"
  /\ Answered /\ sent' = 0
  /\ UNCHANGED <<at, arg, todo, cache, streams, progress, clients, inst, submsgs,
                 ppc>>

-----------------------------------------------------------------------------
(* The clients *)

ipc_notify_receive(c) ==
  /\ c \notin hup
  /\ nbuf[c] # <<>>
  /\ ngot' = [ngot EXCEPT ![c] = Head(nbuf[c])]
  /\ nbuf' = [nbuf EXCEPT ![c] = Tail(@)]
  /\ UNCHANGED <<threads, cache, notify_conns, progress, clients, inst, submsgs, pollers>>

progress_ipc_receive(c) ==
  /\ c \notin hup
  /\ pbuf[c] # <<>>
  /\ pgot' = [pgot EXCEPT ![c] = Head(pbuf[c])]
  /\ pbuf' = [pbuf EXCEPT ![c] = Tail(@)]
  /\ UNCHANGED <<threads, cache, streams, plog, conns, clients, inst, submsgs, pollers>>

hang_up(c) ==
  /\ c \notin fresh \cup hup
  /\ c \in Stream \cup conns \cup Hasty
  /\ hup' = hup \cup {c}
  /\ UNCHANGED <<threads, cache, streams, progress, fresh, inst, submsgs, pollers>>

-----------------------------------------------------------------------------
Calls(t) ==
  \/ notify(t) \/ network_notifier(t) \/ notify_returns(t)
  \/ swupdate_progress(t) \/ progress_returns(t)
  \/ \E c \in Stream : send_notify_msg(t, c)
  \/ \E c \in Listener : send_progress_msg(t, c)

InstallerThread ==
  \/ wakeup \/ notify_start \/ swupdate_progress_init \/ notify_result
  \/ swupdate_progress_end \/ set_idle \/ notify_idle

NetworkThread ==
  \/ trace_request \/ REQ_INSTALL \/ GET_STATUS
  \/ NOTIFY_STREAM \/ write_history \/ register_stream \/ stream_fails
  \/ stream_error

ProgressThread ==
  \/ \E c \in Listener : progress_send_connect_ack(c)
  \/ log_not_acked \/ drop_listener

Next ==
  \/ \E t \in Thread : Calls(t)
  \/ InstallerThread \/ NetworkThread \/ ProgressThread \/ notifier_thread
  \/ \E c \in Listener : accept_listener(c) \/ progress_ipc_receive(c)
  \/ \E c \in Stream : accept_stream(c) \/ ipc_notify_receive(c)
  \/ \E c \in Poller : accept_request(c) \/ accept_poll(c)
  \/ \E c \in Stream \cup Listener : hang_up(c)

Spec == Init /\ [][Next]_vars

(* The threads run when they can, locks are given to who waits for them, a
   poller polls and who follows the notifications reads them.  A listener need
   not read, nobody has to connect and nobody has to hang up. *)
Fairness ==
  /\ SF_vars(Calls("installer") \/ InstallerThread)
  /\ SF_vars(Calls("network") \/ NetworkThread)
  /\ SF_vars(Calls("progress") \/ ProgressThread)
  /\ SF_vars(Calls("notifier"))
  /\ \A c \in Poller : SF_vars(accept_poll(c))
  /\ \A c \in Stream : WF_vars(ipc_notify_receive(c))

FairSpec == Spec /\ Fairness

-----------------------------------------------------------------------------
Status == {"IDLE", "RUN", "EVENT"}

TypeOK ==
  /\ owner \in [Lock -> Thread \cup {Nobody}]
  /\ arg \in [Thread -> Status]
  /\ \A t \in Thread : at[t] \in {"out", "clients", "msg", "nsend", "prog", "psend"}
  /\ \A i \in 1..Len(notifymsgs) : notifymsgs[i].st \in Status
  /\ nrmsgs \in 0..NumCached
  /\ status \in {"IDLE", "RUN"}
  /\ notify_conns \subseteq Stream /\ conns \subseteq Listener
  /\ \A c \in Stream : Len(nbuf[c]) <= BufSize
  /\ \A c \in Listener : Len(pbuf[c]) <= BufSize
  /\ submsgs \in 0..SubMessages

(* nrmsgs counts the cache and the cache keeps its limit, whoever adds to it,
   takes from it or empties it (network_notifier, GET_STATUS,
   cleanum_msg_list). *)
CacheBounded == nrmsgs = Len(notifymsgs) /\ nrmsgs <= NumCached

(* A client of NOTIFY_STREAM sees the notifications of the cache and then all
   later ones, none twice and none missing (history and registration under
   msglock). *)
StreamNoGap ==
  [][\A c \in Stream : ngot'[c] # ngot[c] => ngot[c] = 0 \/ ngot'[c] = ngot[c] + 1]_vars

(* A listener of the progress interface sees every message from the moment it
   is acknowledged, or it is dropped: a slow one misses nothing in between
   (send_progress_msg). *)
ProgressNoGap ==
  [][\A c \in Listener : pgot'[c] # pgot[c] => pgot[c] = 0 \/ pgot'[c] = pgot[c] + 1]_vars

(* Every listener that connects can be sent its ACK. *)
AllAcked == [](pc["progress"] # "notAcked")

(* Whoever logs or reports progress gets on with its work, whatever locks the
   notifiers take, unless a listener is gone before its ACK is sent. *)
NotifyReturns == AllAcked => \A t \in Thread : at[t] # "out" ~> at[t] = "out"

(* ipc_wait_for_complete comes to an end, with the same exception. *)
PollEnds == AllAcked => \A c \in Poller : ppc[c] = "poll" ~> ppc[c] = "done"

(* "We can't use the notify methods for error logging here as it will cause a
   deadlock" (write_notify_msg): no thread logs while it holds a lock that the
   notifiers of another one wait for. *)
NoDeadlock ==
  \A t, u \in Thread : \A l \in {"msg", "prog"} :
    ~(Holds(t, "clients") /\ at[t] = l /\ Holds(u, l) /\ at[u] = "clients")
=============================================================================
