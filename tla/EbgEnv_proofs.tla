--------------------------- MODULE EbgEnv_proofs ---------------------------
(***************************************************************************)
(* A transaction of bootloader/ebg.c boots the new environment once it has *)
(* reported success, keeps the environment that runs until then, and an    *)
(* acknowledgement before the next update is on the disk: for every number *)
(* of environments, variables, updates and power cuts.                     *)
(***************************************************************************)
EXTENDS EbgEnv, FiniteSetTheorems, WellFoundedInduction, TLAPS

Lib == [open: BOOLEAN, mem: [Env -> Environment], cur: Env, inflight: BOOLEAN]

(* e is at least as new as f, and the environments newer than e.           *)
AsNew(d, e, f) == \/ d[f].revision < d[e].revision
                  \/ d[e].revision = d[f].revision /\ e <= f

NewerThan(d, e) == {f \in Env : f # e /\ AsNew(d, f, e)}

(* The copy x of the environment y differs from it in the state at most.   *)
Copies(x, y) ==
  x.revision = y.revision /\ x.in_progress = y.in_progress /\ x.vars = y.vars

(* Without a transaction the copy in memory is the disk, but for a failed  *)
(* acknowledgement; with one its current environment is to replace the     *)
(* oldest and is newer than all of the disk.                               *)
LibInv(l, d) ==
  /\ l.inflight => l.open
  /\ l.open /\ ~l.inflight =>
       /\ l.cur = Newest(d, Env)
       /\ \A e \in Env :
            /\ Copies(l.mem[e], d[e])
            /\ \/ l.mem[e].ustate = d[e].ustate
               \/ e = l.cur /\ l.mem[e].ustate = "ok" /\ d[e].ustate = "testing"
  /\ l.inflight =>
       /\ l.cur = Oldest(d)
       /\ \A e \in Env : d[e].revision < Current(l).revision
       /\ \A v \in Var : Current(l).vars[v] <= upd.no

DiskInv ==
  /\ \A e \in Env : disk[e].in_progress = 0
  /\ \A e \in Env, v \in Var : disk[e].vars[v] <= upd.no

(* The variables that do_apply_list has set are in the working copy.       *)
ApplyInv ==
  /\ pc \in {"begin", "begin2"} => todo = upd.vars
  /\ pc \in {"bootenv", "commit", "commit2"} =>
       \A v \in upd.vars \ todo : lib.inflight /\ Current(lib).vars[v] = upd.no
  /\ pc \in {"commit", "commit2"} => todo = {}

(* An update is committed at most once.                                    *)
CommitInv ==
  /\ commits <= upd.no
  /\ pc # "idle" \/ lib.inflight => commits < upd.no
  /\ pc = "idle" /\ last = "success" /\ upd.state => ~lib.inflight

(* No more environments are newer than the running one than were committed *)
(* since it was booted.                                                    *)
KeptInv ==
  commits < Slots => /\ Copies(disk[running], booted)
                     /\ disk[running].in_progress = 0
                     /\ Cardinality(NewerThan(disk, running)) <= commits

(* Before the first update after a boot the newest environment runs, and   *)
(* a backend that got TESTING has not acknowledged it yet.                 *)
FreshInv ==
  fresh => /\ pc = "idle" /\ ~lib.inflight
           /\ running = Newest(disk, Env)
           /\ seen = "testing" => lib.open /\ env_getglobalstate(lib) = "testing"

IInv == /\ TypeOK /\ LibInv(lib, disk) /\ DiskInv /\ ApplyInv /\ CommitInv /\ KeptInv /\ FreshInv
        /\ UncommittedOffDisk /\ SuccessIsNext /\ AckHolds

-----------------------------------------------------------------------------
(* The order of the environments                                           *)

(* A total order on the environments has a greatest element.               *)
LEMMA GreatestExists ==
  ASSUME NEW R,
         \A a, b \in Env : <<a, b>> \in R \/ <<b, a>> \in R,
         \A a, b, c \in Env : <<a, b>> \in R /\ <<b, c>> \in R => <<a, c>> \in R
  PROVE  \E e \in Env : \A f \in Env : <<e, f>> \in R
<1> DEFINE Top(n) == \E e \in 1..n : \A f \in 1..n : <<e, f>> \in R
           S == {n \in Env : ~Top(n)}
           L == {p \in Nat \X Nat : p[1] < p[2]}
<1>1. Slots \in Nat /\ Slots >= 2
  BY EbgAssumption
<1>2. IsWellFoundedOn(L, Nat)
  BY NatLessThanWellFounded, Zenon DEF OpToRel
<1>3. S = {}
  <2> SUFFICES ASSUME S # {} PROVE FALSE
    OBVIOUS
  <2>1. S \subseteq Nat
    BY <1>1 DEF Env
  <2>2. PICK m \in S : \A n \in S : <<n, m>> \notin L
    <3> HIDE DEF S, L
    <3> QED
      BY <1>2, <2>1, WFMin, Zenon
  <2>3. m \in Env /\ ~Top(m) /\ m \in Nat
    BY <2>1
  <2>4. m # 1
    <3> SUFFICES ASSUME m = 1 PROVE Top(1)
      BY <2>3
    <3> QED
      BY <1>1 DEF Env
  <2>5. m - 1 \in Env /\ m - 1 \in Nat /\ m - 1 < m
    <3> HIDE DEF S, L, Top
    <3> QED
      BY <1>1, <2>3, <2>4 DEF Env
  <2>6. Top(m - 1)
    <3>1. <<m - 1, m>> \in L
      BY <2>3, <2>5, Zenon
    <3> HIDE DEF L, Top
    <3> QED
      BY <2>2, <2>5, <3>1
  <2>7. PICK e \in 1..(m - 1) : \A f \in 1..(m - 1) : <<e, f>> \in R
    BY <2>6
  <2>8. e \in Env /\ \A f \in 1..m : f \in Env /\ (f \in 1..(m - 1) \/ f = m)
    <3> HIDE DEF S, L, Top
    <3> QED
      BY <1>1, <2>3, <2>5 DEF Env
  <2>9. CASE <<e, m>> \in R
    <3>1. e \in 1..m /\ \A f \in 1..m : <<e, f>> \in R
      <4> HIDE DEF S, L, Top
      <4> QED
        BY <2>3, <2>5, <2>7, <2>8, <2>9 DEF Env
    <3> QED
      BY <2>3, <3>1, Zenon
  <2>10. CASE <<m, e>> \in R
    <3>1. <<m, m>> \in R
      BY <2>3
    <3>2. \A f \in 1..m : <<m, f>> \in R
      BY <2>3, <2>7, <2>8, <2>10, <3>1, Zenon
    <3>3. m \in 1..m
      BY <2>3 DEF Env
    <3> QED
      BY <2>3, <3>2, <3>3
  <2> QED
    BY <2>3, <2>8, <2>9, <2>10
<1>4. Slots \in Env
  BY <1>1 DEF Env
<1>5. Top(Slots)
  BY <1>3, <1>4
<1> QED
  BY <1>5 DEF Env

(* The newest and the oldest environment, which are two, as functions of   *)
(* the revisions.                                                          *)
LEMMA NewestIs ==
  ASSUME NEW d, \A e \in Env : d[e].revision \in Nat
  PROVE  /\ Newest(d, Env) \in Env
         /\ \A f \in Env : AsNew(d, Newest(d, Env), f)
         /\ \A e \in Env : (\A f \in Env : AsNew(d, e, f)) => e = Newest(d, Env)
<1> DEFINE R == {p \in Env \X Env : AsNew(d, p[1], p[2])}
<1>0. \A e \in Env : e \in Nat
  BY EbgAssumption DEF Env
<1>1. \A a, b \in Env : <<a, b>> \in R <=> AsNew(d, a, b)
  OBVIOUS
<1>2. \A a, b \in Env : AsNew(d, a, b) \/ AsNew(d, b, a)
  BY <1>0 DEF AsNew
<1>3. \A a, b, c \in Env : AsNew(d, a, b) /\ AsNew(d, b, c) => AsNew(d, a, c)
  BY <1>0 DEF AsNew
<1>4. \E e \in Env : \A f \in Env : AsNew(d, e, f)
  <2> HIDE DEF R
  <2> QED
    BY <1>1, <1>2, <1>3, GreatestExists, Zenon
<1>5. \A e, f \in Env : AsNew(d, e, f) <=> \/ d[f].revision < d[e].revision
                                           \/ d[f].revision = d[e].revision /\ e <= f
  BY DEF AsNew
<1>6. \E e \in Env : \A f \in Env : \/ d[f].revision < d[e].revision
                                    \/ d[f].revision = d[e].revision /\ e <= f
  BY <1>4, <1>5
<1>7. Newest(d, Env) \in Env
      /\ \A f \in Env : \/ d[f].revision < d[Newest(d, Env)].revision
                        \/ d[f].revision = d[Newest(d, Env)].revision /\ Newest(d, Env) <= f
  BY <1>6, Zenon DEF Newest
<1>8. \A f \in Env : AsNew(d, Newest(d, Env), f)
  BY <1>5, <1>7
<1>9. \A a, b \in Env : AsNew(d, a, b) /\ AsNew(d, b, a) => a = b
  BY <1>0 DEF AsNew
<1> QED
  BY <1>7, <1>8, <1>9

LEMMA OldestIs ==
  ASSUME NEW d, \A e \in Env : d[e].revision \in Nat
  PROVE  /\ Oldest(d) \in Env
         /\ \A f \in Env : AsNew(d, f, Oldest(d))
         /\ \A e \in Env : (\A f \in Env : AsNew(d, f, e)) => e = Oldest(d)
<1> DEFINE R == {p \in Env \X Env : AsNew(d, p[2], p[1])}
<1>0. \A e \in Env : e \in Nat
  BY EbgAssumption DEF Env
<1>1. \A a, b \in Env : <<a, b>> \in R <=> AsNew(d, b, a)
  OBVIOUS
<1>2. \A a, b \in Env : AsNew(d, a, b) \/ AsNew(d, b, a)
  BY <1>0 DEF AsNew
<1>3. \A a, b, c \in Env : AsNew(d, b, a) /\ AsNew(d, c, b) => AsNew(d, c, a)
  BY <1>0 DEF AsNew
<1>4. \E e \in Env : \A f \in Env : AsNew(d, f, e)
  <2> HIDE DEF R
  <2> QED
    BY <1>1, <1>2, <1>3, GreatestExists, Zenon
<1>5. \A e, f \in Env : AsNew(d, f, e) <=> \/ d[e].revision < d[f].revision
                                           \/ d[e].revision = d[f].revision /\ e >= f
  BY <1>0 DEF AsNew
<1>6. \E e \in Env : \A f \in Env : \/ d[e].revision < d[f].revision
                                    \/ d[e].revision = d[f].revision /\ e >= f
  BY <1>4, <1>5
<1>7. Oldest(d) \in Env
      /\ \A f \in Env : \/ d[Oldest(d)].revision < d[f].revision
                        \/ d[Oldest(d)].revision = d[f].revision /\ Oldest(d) >= f
  BY <1>6, Zenon DEF Oldest
<1>8. \A f \in Env : AsNew(d, f, Oldest(d))
  BY <1>5, <1>7
<1>9. \A a, b \in Env : AsNew(d, a, b) /\ AsNew(d, b, a) => a = b
  BY <1>0 DEF AsNew
<1> QED
  BY <1>7, <1>8, <1>9

LEMMA OldestIsNotNewest ==
  ASSUME NEW d, \A e \in Env : d[e].revision \in Nat
  PROVE  Oldest(d) # Newest(d, Env)
<1> DEFINE o == Oldest(d)
<1>1. \A e \in Env : e \in Nat
  BY EbgAssumption DEF Env
<1> SUFFICES ASSUME o = Newest(d, Env) PROVE FALSE
  OBVIOUS
<1>2. o \in Env /\ \A f \in Env : AsNew(d, o, f) /\ AsNew(d, f, o)
  BY NewestIs, OldestIs
<1> HIDE DEF o
<1>3. \A f \in Env : f = o
  BY <1>1, <1>2 DEF AsNew
<1>4. 1 \in Env /\ 2 \in Env
  BY EbgAssumption DEF Env
<1> QED
  BY <1>3, <1>4

(* Only the revisions count.                                               *)
LEMMA OrderFrame ==
  ASSUME NEW c, NEW d, \A e \in Env : d[e].revision \in Nat,
         \A e \in Env : c[e].revision = d[e].revision
  PROVE  /\ Newest(c, Env) = Newest(d, Env) /\ Oldest(c) = Oldest(d)
         /\ \A e \in Env : NewerThan(c, e) = NewerThan(d, e)
<1>1. \A e, f \in Env : AsNew(c, e, f) <=> AsNew(d, e, f)
  BY DEF AsNew
<1>2. Newest(c, Env) \in Env /\ \A f \in Env : AsNew(d, Newest(c, Env), f)
  BY <1>1, NewestIs
<1>3. Oldest(c) \in Env /\ \A f \in Env : AsNew(d, f, Oldest(c))
  BY <1>1, OldestIs
<1>4. ASSUME NEW e \in Env PROVE NewerThan(c, e) = NewerThan(d, e)
  BY <1>1 DEF NewerThan
<1> QED
  BY <1>2, <1>3, <1>4, NewestIs, OldestIs

-----------------------------------------------------------------------------
(* libebgenv                                                               *)

(* l with the environment x for the current one.                           *)
With(l, x) == [open |-> l.open, mem |-> [l.mem EXCEPT ![l.cur] = x],
               cur |-> l.cur, inflight |-> l.inflight]

LEMMA WithFacts ==
  ASSUME NEW l \in Lib, NEW x \in Environment
  PROVE  /\ With(l, x) \in Lib /\ Current(With(l, x)) = x
         /\ With(l, x).cur = l.cur /\ With(l, x).open = l.open
         /\ With(l, x).inflight = l.inflight
         /\ \A e \in Env \ {l.cur} : With(l, x).mem[e] = l.mem[e]
BY DEF Lib, With, Current

LEMMA SetFacts ==
  ASSUME NEW l \in Lib
  PROVE  /\ \A s \in State : env_set(l, "ustate", s) = With(l, [Current(l) EXCEPT !.ustate = s])
         /\ \A n \in 0..1 :
              env_set(l, "in_progress", n) = With(l, [Current(l) EXCEPT !.in_progress = n])
         /\ \A v \in Var, n \in 0..MaxUpdates :
              env_set(l, v, n) = With(l, [Current(l) EXCEPT !.vars = [@ EXCEPT ![v] = n]])
<1>1. "ustate" \notin Var /\ "in_progress" \notin Var
  BY EbgAssumption
<1>2. ASSUME NEW s \in State
      PROVE  env_set(l, "ustate", s) = With(l, [Current(l) EXCEPT !.ustate = s])
  BY <1>1 DEF env_set, With, Current, Lib
<1>3. ASSUME NEW n \in 0..1
      PROVE  env_set(l, "in_progress", n) = With(l, [Current(l) EXCEPT !.in_progress = n])
  BY <1>1 DEF env_set, With, Current, Lib
<1>4. ASSUME NEW v \in Var, NEW n \in 0..MaxUpdates
      PROVE  env_set(l, v, n) = With(l, [Current(l) EXCEPT !.vars = [@ EXCEPT ![v] = n]])
  BY DEF env_set, With, Current, Lib
<1> QED
  BY <1>2, <1>3, <1>4

(* The revisions of the disk are numbers.                                  *)
LEMMA Revisions == ASSUME TypeOK PROVE \A e \in Env : disk[e].revision \in Nat
BY DEF TypeOK, Environment

(* Opening the environment leaves a copy of the disk in memory.            *)
LEMMA OpenFacts ==
  ASSUME TypeOK, LibInv(lib, disk), NEW l, l = env_open_current(lib)
  PROVE  /\ l \in Lib /\ l.open /\ LibInv(l, disk)
         /\ l.inflight <=> lib.inflight
         /\ lib.open => l = lib
<1>1. lib \in Lib /\ disk \in [Env -> Environment]
  BY DEF TypeOK, Lib
<1>2. CASE lib.open
  BY <1>1, <1>2 DEF env_open_current
<1>3. CASE ~lib.open
  <2>1. ~lib.inflight
    BY <1>3 DEF LibInv
  <2>2. Newest(disk, Env) \in Env
    BY Revisions, NewestIs
  <2>3. l = [open |-> TRUE, mem |-> disk, cur |-> Newest(disk, Env), inflight |-> lib.inflight]
    BY <1>1, <1>3, Zenon DEF env_open_current, Lib
  <2> QED
    BY <1>1, <1>3, <2>1, <2>2, <2>3 DEF Lib, LibInv, Copies
<1> QED
  BY <1>2, <1>3

-----------------------------------------------------------------------------
(* bootloader/ebg.c                                                        *)

(* What do_env_set does for each of its callers.                           *)
LEMMA CallFacts ==
  ASSUME NEW l, l = env_open_current(lib), NEW works \in BOOLEAN
  PROVE  /\ \A name \in {"transaction", "ustate"} :
              do_env_set(name, "in_progress", works)
                = Returns(TRUE, create_new_environment(l), disk)
         /\ do_env_set("transaction", "failed", works)
              = IF lib.inflight THEN Returns(TRUE, env_set(l, "in_progress", 0), disk)
                ELSE Returns(FALSE, lib, disk)
         /\ do_env_set("ustate", "failed", works)
              = IF lib.inflight THEN Returns(TRUE, l, disk) ELSE Returns(FALSE, lib, disk)
         /\ do_env_set("ustate", "ok", works) = acknowledge(l, works)
         /\ do_env_set("ustate", "installed", works)
              = IF lib.inflight THEN commit(l, works) ELSE Returns(FALSE, lib, disk)
         /\ \A v \in Var, n \in Nat :
              do_env_set(v, n, works)
                = IF lib.inflight THEN Returns(works, IF works THEN env_set(l, v, n) ELSE l, disk)
                  ELSE Returns(FALSE, lib, disk)
<1>1. "ustate" \notin Var /\ "transaction" \notin Var
  BY EbgAssumption
<1>2. ASSUME NEW name \in {"transaction", "ustate"}
      PROVE  do_env_set(name, "in_progress", works)
               = Returns(TRUE, create_new_environment(l), disk)
  BY <1>1, <1>2, Zenon DEF do_env_set, Allowed
<1>3. do_env_set("transaction", "failed", works)
        = IF lib.inflight THEN Returns(TRUE, env_set(l, "in_progress", 0), disk)
          ELSE Returns(FALSE, lib, disk)
  BY <1>1, Zenon DEF do_env_set, Allowed
<1>4. do_env_set("ustate", "failed", works)
        = IF lib.inflight THEN Returns(TRUE, l, disk) ELSE Returns(FALSE, lib, disk)
  BY <1>1, Zenon DEF do_env_set, Allowed
<1>5. do_env_set("ustate", "ok", works) = acknowledge(l, works)
  BY <1>1 DEF do_env_set, Allowed
<1>6. do_env_set("ustate", "installed", works)
        = IF lib.inflight THEN commit(l, works) ELSE Returns(FALSE, lib, disk)
  BY <1>1, Zenon DEF do_env_set, Allowed
<1>7. ASSUME NEW v \in Var, NEW n \in Nat
      PROVE  do_env_set(v, n, works)
               = IF lib.inflight THEN Returns(works, IF works THEN env_set(l, v, n) ELSE l, disk)
                 ELSE Returns(FALSE, lib, disk)
  BY <1>1, Zenon DEF do_env_set, Allowed
<1> QED
  BY <1>2, <1>3, <1>4, <1>5, <1>6, <1>7, Zenon

(* Only a fault that is left makes a call fail.                            *)
LEMMA FaultFacts ==
  ASSUME TypeOK, NEW name, NEW value, NEW r \in Calls(name, value), Becomes(r, name, value)
  PROVE  /\ faults' \in 0..MaxFaults /\ lib' = r.lib /\ disk' = r.disk
         /\ \E works \in BOOLEAN : r = do_env_set(name, value, works)
<1>1. PICK works \in BOOLEAN :
        r = do_env_set(name, value, works) /\ (works \/ faults < MaxFaults)
  BY Zenon DEF Calls
<1>2. faults' = (IF r = do_env_set(name, value, TRUE) THEN faults ELSE faults + 1)
      /\ lib' = r.lib /\ disk' = r.disk
  BY DEF Becomes
<1>3. faults' \in 0..MaxFaults
  <2>1. CASE r = do_env_set(name, value, TRUE)
    BY <1>2, <2>1 DEF TypeOK
  <2>2. CASE r # do_env_set(name, value, TRUE)
    <3>1. works # TRUE
      BY <1>1, <2>2, Zenon
    <3>2. faults < MaxFaults
      BY <1>1, <3>1, Zenon
    <3> QED
      BY <1>2, <2>2, <3>2, EbgAssumption DEF TypeOK
  <2> QED
    BY <2>1, <2>2, Zenon
<1> QED
  BY <1>1, <1>2, <1>3, Zenon

(* The working copy is an environment.                                     *)
LEMMA CopyFacts ==
  ASSUME NEW c \in Environment, NEW n \in Nat
  PROVE  LET x == [c EXCEPT !.revision = n, !.in_progress = 1]
         IN  x \in Environment /\ x.revision = n /\ x.vars = c.vars
<1> DEFINE y == [c EXCEPT !.revision = n]
           x == [y EXCEPT !.in_progress = 1]
<1>1. y \in Environment /\ y.revision = n /\ y.vars = c.vars
  BY DEF Environment
<1> HIDE DEF y
<1>2. x \in Environment /\ x.revision = y.revision /\ x.vars = y.vars
  BY <1>1 DEF Environment
<1> QED
  BY <1>1, <1>2, Zenon DEF y

(* A transaction works on a copy of the newest environment, which is to    *)
(* replace the oldest.                                                     *)
LEMMA BeginFacts ==
  ASSUME TypeOK, DiskInv, LibInv(lib, disk), NEW l, l = env_open_current(lib)
  PROVE  /\ create_new_environment(l) \in Lib
         /\ LibInv(create_new_environment(l), disk)
         /\ create_new_environment(l).inflight
<1>1. /\ l \in Lib /\ l.open /\ LibInv(l, disk) /\ disk \in [Env -> Environment]
      /\ upd.no \in Nat
  BY OpenFacts DEF TypeOK
<1>2. CASE l.inflight
  BY <1>1, <1>2 DEF create_new_environment
<1>3. CASE ~l.inflight
  <2> DEFINE c == Current(l)
             o == Oldest(l.mem)
             x == [c EXCEPT !.revision = @ + 1, !.in_progress = 1]
             n == create_new_environment(l)
  <2>1. /\ l.cur = Newest(disk, Env) /\ \A e \in Env : Copies(l.mem[e], disk[e])
        /\ l.cur \in Env /\ l.mem \in [Env -> Environment]
    BY <1>1, <1>3 DEF LibInv, Lib
  <2>2. /\ c \in Environment /\ c.in_progress = 0
        /\ c.revision = disk[l.cur].revision /\ c.vars = disk[l.cur].vars
    BY <2>1 DEF Current, Copies, DiskInv
  <2>3. o = Oldest(disk) /\ o \in Env
    BY <2>1, Revisions, OrderFrame, OldestIs, Zenon DEF Copies
  <2>4. /\ x \in Environment /\ x.revision = c.revision + 1 /\ x.vars = c.vars
    <3>1. c.revision + 1 \in Nat
      BY <2>2 DEF Environment
    <3> QED
      BY <2>2, <3>1, CopyFacts, Zenon
  <2>5. n = [open |-> TRUE, mem |-> [l.mem EXCEPT ![o] = x], cur |-> o, inflight |-> TRUE]
    <3>1. env_create_new(l) = [l EXCEPT !.cur = o, !.mem[o] = x]
      BY Zenon DEF env_create_new
    <3>2. n = [env_create_new(l) EXCEPT !.inflight = TRUE]
      BY <1>3, <2>2 DEF create_new_environment
    <3> HIDE DEF o, x, n
    <3> QED
      BY <1>1, <2>3, <3>1, <3>2, Zenon DEF Lib
  <2> HIDE DEF o, x, c, n
  <2>6. n \in Lib /\ n.inflight /\ n.open /\ n.cur = o /\ Current(n) = x
    BY <2>1, <2>3, <2>4, <2>5 DEF Lib, Current
  <2>7. \A e \in Env : disk[e].revision < x.revision
    <3>1. \A e \in Env : AsNew(disk, l.cur, e)
      BY <2>1, Revisions, NewestIs
    <3> QED
      BY <2>1, <2>2, <2>4, <3>1, Revisions DEF AsNew
  <2>8. \A v \in Var : x.vars[v] <= upd.no
    BY <2>1, <2>2, <2>4 DEF DiskInv
  <2>9. LibInv(n, disk)
    BY <2>3, <2>6, <2>7, <2>8 DEF LibInv
  <2> QED
    BY <2>6, <2>9 DEF n
<1> QED
  BY <1>2, <1>3

(* Within a transaction the working copy may change but for its revision.  *)
LEMMA WorkFacts ==
  ASSUME NEW d, NEW l \in Lib, l.inflight, LibInv(l, d), NEW x \in Environment,
         x.revision = Current(l).revision, \A v \in Var : x.vars[v] <= upd.no
  PROVE  LibInv(With(l, x), d)
BY WithFacts DEF LibInv

(* INSTALLED finalizes the working copy and, if that can be written, puts  *)
(* it on the disk.                                                         *)
LEMMA CommitFacts ==
  ASSUME lib \in Lib, disk \in [Env -> Environment], lib.inflight, lib.open,
         NEW works \in BOOLEAN, NEW r, r = commit(lib, works)
  PROVE  \E x \in Environment :
           /\ x.revision = Current(lib).revision /\ x.vars = Current(lib).vars
           /\ x.in_progress = 0 /\ x.ustate = "installed"
           /\ \/ /\ r.ok = TRUE /\ r.disk = [disk EXCEPT ![lib.cur] = x]
                 /\ r.lib \in Lib /\ ~r.lib.open /\ ~r.lib.inflight
              \/ r.ok = FALSE /\ r.disk = disk /\ r.lib = With(lib, x)
<1> DEFINE c == Current(lib)
           y == [c EXCEPT !.in_progress = 0]
           x == [y EXCEPT !.ustate = "installed"]
           l == With(lib, y)
           f == With(l, x)
<1>1. c \in Environment /\ lib.cur \in Env
  BY DEF Lib, Current
<1>2. y \in Environment /\ y.revision = c.revision /\ y.vars = c.vars /\ y.in_progress = 0
  <2> HIDE DEF c
  <2> QED
    BY <1>1 DEF Environment
<1>3. /\ x \in Environment /\ x.revision = c.revision /\ x.vars = c.vars
      /\ x.in_progress = 0 /\ x.ustate = "installed"
  <2> HIDE DEF y
  <2> QED
    BY <1>2 DEF Environment, State
<1>4. l \in Lib /\ Current(l) = y /\ l.cur = lib.cur /\ l.open = lib.open /\ l.inflight = lib.inflight
  <2> HIDE DEF y
  <2> QED
    BY <1>2, WithFacts, Zenon
<1>5. env_finalize_update(lib) = f
  <2>1. env_set(lib, "in_progress", 0) = l
    <3>1. 0 \in 0..1
      OBVIOUS
    <3> QED
      BY <3>1, SetFacts, Zenon
  <2>2. env_set(l, "ustate", "installed") = With(l, [Current(l) EXCEPT !.ustate = "installed"])
    <3> HIDE DEF l
    <3> QED
      BY <1>4, SetFacts, Zenon DEF State
  <2> HIDE DEF l, y
  <2> QED
    BY <1>4, <2>1, <2>2, Zenon DEF env_finalize_update
<1>6. f \in Lib /\ Current(f) = x /\ f.cur = lib.cur
  <2> HIDE DEF l, x
  <2> QED
    BY <1>3, <1>4, WithFacts, Zenon
<1>7. f = With(lib, x)
  <2> HIDE DEF x, y
  <2> QED
    BY <1>1, Zenon DEF With, Lib
<1> HIDE DEF f, x, y, l, c
<1>8. CASE works
  <2>1. env_close(f, works) = Returns(TRUE, [f EXCEPT !.open = FALSE], [disk EXCEPT ![lib.cur] = x])
    BY <1>6, <1>8, Zenon DEF env_close
  <2>2. r = [Returns(TRUE, [f EXCEPT !.open = FALSE], [disk EXCEPT ![lib.cur] = x])
               EXCEPT !.lib.inflight = FALSE]
    BY <1>5, <2>1 DEF commit, Returns
  <2>3. /\ r.ok = TRUE /\ r.disk = [disk EXCEPT ![lib.cur] = x]
        /\ r.lib = [[f EXCEPT !.open = FALSE] EXCEPT !.inflight = FALSE]
    BY <2>2 DEF Returns
  <2>4. r.lib \in Lib /\ ~r.lib.open /\ ~r.lib.inflight
    BY <1>6, <2>3, Zenon DEF Lib
  <2> QED
    BY <1>3, <2>3, <2>4, Zenon DEF c
<1>9. CASE ~works
  <2>1. r = Returns(FALSE, f, disk)
    BY <1>5, <1>9 DEF commit, env_close, Returns
  <2> QED
    BY <1>3, <1>7, <2>1 DEF Returns, c
<1> QED
  BY <1>8, <1>9, Zenon

(* Outside a transaction an acknowledgement changes states only, on the    *)
(* disk and in memory alike, and of the boot path only TESTING to OK.      *)
AckOutcome(r, l) ==
  /\ r.lib \in Lib /\ r.disk \in [Env -> Environment] /\ r.ok \in BOOLEAN
  /\ ~r.lib.inflight /\ LibInv(r.lib, r.disk)
  /\ \A e \in Env : Copies(r.disk[e], disk[e])
  /\ \/ r.disk[l.cur].ustate = disk[l.cur].ustate
     \/ disk[l.cur].ustate = "testing" /\ r.disk[l.cur].ustate = "ok"
  /\ r.ok /\ env_getglobalstate(l) = "testing" => r.disk[l.cur].ustate = "ok"

LEMMA AckFacts ==
  ASSUME disk \in [Env -> Environment], NEW l \in Lib, LibInv(l, disk), l.open, ~l.inflight,
         NEW works \in BOOLEAN, NEW r, r = acknowledge(l, works)
  PROVE  AckOutcome(r, l)
<1> DEFINE Cleared(d) == [e \in Env |-> IF e = l.cur THEN d[e] ELSE [d[e] EXCEPT !.ustate = "ok"]]
           x == [Current(l) EXCEPT !.ustate = "ok"]
<1>1. /\ l.cur = Newest(disk, Env) /\ l.cur \in Env /\ l.mem \in [Env -> Environment]
      /\ \A e \in Env :
            /\ Copies(l.mem[e], disk[e])
            /\ \/ l.mem[e].ustate = disk[e].ustate
               \/ e = l.cur /\ l.mem[e].ustate = "ok" /\ disk[e].ustate = "testing"
  BY DEF LibInv, Lib
<1>2. \A e \in Env : disk[e].revision \in Nat
  BY DEF Environment
<1>3. CASE r = Returns(FALSE, l, disk)
  <2>1. r.ok = FALSE /\ r.lib = l /\ r.disk = disk
    BY <1>3 DEF Returns
  <2> QED
    BY <1>1, <2>1, Zenon DEF AckOutcome, Copies
<1>4. CASE env_getglobalstate(l) = "failed" /\ works
  <2>1. r.ok = TRUE /\ r.lib = [l EXCEPT !.mem = Cleared(@)] /\ r.disk = Cleared(disk)
    BY <1>4 DEF acknowledge, Returns
  <2>2. ASSUME NEW d \in [Env -> Environment]
        PROVE  /\ Cleared(d) \in [Env -> Environment] /\ Cleared(d)[l.cur] = d[l.cur]
               /\ \A e \in Env : Copies(Cleared(d)[e], d[e])
               /\ \A e \in Env \ {l.cur} : Cleared(d)[e].ustate = "ok"
    <3>1. ASSUME NEW c \in Environment
          PROVE  /\ [c EXCEPT !.ustate = "ok"] \in Environment
                 /\ Copies([c EXCEPT !.ustate = "ok"], c)
                 /\ [c EXCEPT !.ustate = "ok"].ustate = "ok"
      BY Zenon DEF Environment, State, Copies
    <3>2. \A e \in Env : Cleared(d)[e] = IF e = l.cur THEN d[e] ELSE [d[e] EXCEPT !.ustate = "ok"]
      OBVIOUS
    <3>3. \A e \in Env : Cleared(d)[e] \in Environment
      BY <3>1, <3>2, Zenon
    <3> HIDE DEF Cleared
    <3>4. ASSUME NEW e \in Env \ {l.cur} PROVE Cleared(d)[e].ustate = "ok"
      <4>1. Cleared(d)[e] = [d[e] EXCEPT !.ustate = "ok"] /\ d[e] \in Environment
        BY <3>2
      <4> QED
        BY <3>1, <4>1, Zenon
    <3>5. \A e \in Env : Copies(Cleared(d)[e], d[e])
      BY <3>1, <3>2, Zenon DEF Copies
    <3> QED
      BY <1>1, <3>2, <3>3, <3>4, <3>5 DEF Cleared
  <2> HIDE DEF Cleared
  <2>3. /\ r.lib \in Lib /\ r.lib.cur = l.cur /\ r.lib.open /\ ~r.lib.inflight
        /\ r.lib.mem = Cleared(l.mem)
    BY <1>1, <2>1, <2>2 DEF Lib
  <2>4. \A e \in Env : Copies(r.disk[e], disk[e]) /\ Copies(r.lib.mem[e], l.mem[e])
    BY <1>1, <2>1, <2>2, <2>3
  <2>5. Newest(r.disk, Env) = l.cur
    <3>1. \A e \in Env : r.disk[e].revision = disk[e].revision
      BY <2>4 DEF Copies
    <3> QED
      BY <1>1, <1>2, <3>1, OrderFrame, Zenon
  <2>6. \A e \in Env : Copies(r.lib.mem[e], r.disk[e])
    BY <1>1, <2>4 DEF Copies
  <2>7. r.disk[l.cur] = disk[l.cur] /\ r.lib.mem[l.cur] = l.mem[l.cur]
        /\ \A e \in Env \ {l.cur} : r.disk[e].ustate = "ok" /\ r.lib.mem[e].ustate = "ok"
    BY <1>1, <2>1, <2>2, <2>3
  <2>8. LibInv(r.lib, r.disk)
    BY <1>1, <2>3, <2>5, <2>6, <2>7 DEF LibInv
  <2> QED
    BY <1>4, <2>1, <2>2, <2>3, <2>4, <2>7, <2>8, Zenon DEF AckOutcome
<1>5. CASE env_getglobalstate(l) # "failed" /\ Current(l).ustate = "testing"
  <2>1. x \in Environment /\ Copies(x, Current(l)) /\ x.ustate = "ok" /\ Current(l) = l.mem[l.cur]
    BY <1>1 DEF Environment, State, Copies, Current
  <2>2. env_set(l, "ustate", "ok") = With(l, x) /\ r = env_close(With(l, x), works)
    <3>1. env_set(l, "ustate", "ok") = With(l, x)
      BY SetFacts, Zenon DEF State
    <3>2. r = env_close(env_set(l, "ustate", "ok"), works)
      BY <1>5, Zenon DEF acknowledge
    <3> QED
      BY <3>1, <3>2, Zenon
  <2> HIDE DEF x
  <2>3. /\ With(l, x) \in Lib /\ Current(With(l, x)) = x /\ With(l, x).cur = l.cur
        /\ With(l, x).open /\ ~With(l, x).inflight
        /\ \A e \in Env \ {l.cur} : With(l, x).mem[e] = l.mem[e]
    BY <2>1, WithFacts
  <2>4. disk[l.cur].ustate = "testing" /\ Copies(x, disk[l.cur])
    BY <1>1, <1>5, <2>1 DEF Copies
  <2>5. CASE works
    <3>1. r = Returns(TRUE, [With(l, x) EXCEPT !.open = FALSE], [disk EXCEPT ![l.cur] = x])
      BY <2>2, <2>3, <2>5, Zenon DEF env_close
    <3>2. /\ r.ok = TRUE /\ r.lib = [With(l, x) EXCEPT !.open = FALSE]
          /\ r.disk = [disk EXCEPT ![l.cur] = x]
      BY <3>1 DEF Returns
    <3>3. r.lib \in Lib /\ ~r.lib.open /\ ~r.lib.inflight
      BY <2>3, <3>2, Zenon DEF Lib
    <3>4. /\ r.disk \in [Env -> Environment] /\ r.disk[l.cur] = x
          /\ \A e \in Env \ {l.cur} : r.disk[e] = disk[e]
      BY <1>1, <2>1, <3>2
    <3>5. \A e \in Env : Copies(r.disk[e], disk[e])
      BY <2>4, <3>4 DEF Copies
    <3> QED
      BY <2>1, <2>4, <3>2, <3>3, <3>4, <3>5, Zenon DEF AckOutcome, LibInv
  <2>6. CASE ~works
    <3>1. r = Returns(FALSE, With(l, x), disk)
      BY <2>2, <2>6 DEF env_close
    <3>2. r.ok = FALSE /\ r.lib = With(l, x) /\ r.disk = disk
      BY <3>1 DEF Returns
    <3>3. With(l, x).mem[l.cur] = x
      BY <2>3 DEF Current
    <3>4. LibInv(With(l, x), disk)
      BY <1>1, <2>1, <2>3, <2>4, <3>3 DEF LibInv
    <3> QED
      BY <1>1, <2>3, <3>2, <3>4, Zenon DEF AckOutcome, Copies
  <2> QED
    BY <2>5, <2>6
<1>6. CASE env_getglobalstate(l) = "failed" /\ ~works
  <2>1. r = Returns(FALSE, l, disk)
    BY <1>6, Zenon DEF acknowledge
  <2> QED
    BY <1>3, <2>1, Zenon
<1>7. CASE env_getglobalstate(l) # "failed" /\ Current(l).ustate # "testing"
  <2>1. r = Returns(FALSE, l, disk)
    BY <1>7, Zenon DEF acknowledge
  <2> QED
    BY <1>3, <2>1, Zenon
<1> QED
  BY <1>4, <1>5, <1>6, <1>7

-----------------------------------------------------------------------------
(* The invariant                                                           *)

LEMMA BootPathIs ==
  ASSUME NEW d, \A e \in Env : d[e].in_progress = 0
  PROVE  BootPath(d) = Newest(d, Env)
<1>1. {e \in Env : d[e].in_progress = 0} = Env
  OBVIOUS
<1> QED
  BY <1>1, Zenon DEF BootPath

(* The environments newer than another are finitely many.                  *)
LEMMA EnvFinite == IsFiniteSet(Env) /\ Cardinality(Env) = Slots /\ Slots \in Nat /\ Slots >= 2
<1>1. Slots \in Nat /\ Slots >= 2 /\ Slots \in Int /\ 1 \in Int
  BY EbgAssumption
<1> QED
  BY <1>1, FS_Interval DEF Env

LEMMA EbgInit == Init => IInv
<1> SUFFICES ASSUME Init PROVE IInv
  OBVIOUS
<1> DEFINE x(e) == [revision |-> e, in_progress |-> 0, ustate |-> "ok", vars |-> [v \in Var |-> 0]]
<1>1. /\ disk = [e \in Env |-> x(e)] /\ running = Slots /\ booted = disk[Slots] /\ commits = 0
      /\ lib = [open |-> FALSE, mem |-> disk, cur |-> running, inflight |-> FALSE]
      /\ pc = "idle" /\ todo = {} /\ last = "none" /\ failed = {}
      /\ upd = [no |-> 0, vars |-> {}, transaction |-> TRUE, state |-> TRUE]
      /\ seen = "none" /\ acked = FALSE /\ fresh = TRUE /\ boots = 0 /\ faults = 0
  BY DEF Init, Closed
<1>2. Slots \in Env /\ \A e \in Env : e \in Nat /\ e <= Slots
  BY EbgAssumption DEF Env
<1>3. {MaxUpdates, MaxBoots, MaxFaults} \subseteq Nat
  BY EbgAssumption
<1>4. \A e \in Env : x(e) \in Environment
  BY <1>2, <1>3 DEF Environment, State
<1>5. \A e \in Env : disk[e] = x(e)
  BY <1>1
<1>6. disk \in [Env -> Environment]
  BY <1>1, <1>4
<1>7. \A e \in Env : /\ disk[e].revision = e /\ disk[e].in_progress = 0 /\ disk[e].ustate = "ok"
                     /\ \A v \in Var : disk[e].vars[v] = 0
  <2>1. \A e \in Env : /\ x(e).revision = e /\ x(e).in_progress = 0 /\ x(e).ustate = "ok"
                       /\ x(e).vars = [v \in Var |-> 0]
    OBVIOUS
  <2> HIDE DEF x
  <2> QED
    BY <1>5, <2>1
<1> HIDE DEF x
<1>8. TypeOK
  <2>1. lib \in [open: BOOLEAN, mem: [Env -> Environment], cur: Env, inflight: BOOLEAN]
    BY <1>1, <1>2, <1>6
  <2>2. booted \in Environment /\ running \in Env
    BY <1>1, <1>2, <1>6
  <2>3. upd \in [no: 0..MaxUpdates, vars: SUBSET Var, transaction: BOOLEAN, state: BOOLEAN]
    BY <1>1, <1>3
  <2>4. commits \in 0..MaxUpdates /\ boots \in 0..MaxBoots /\ faults \in 0..MaxFaults
    BY <1>1, <1>3
  <2> QED
    BY <1>1, <1>6, <2>1, <2>2, <2>3, <2>4, Zenon DEF TypeOK
<1>9. \A e \in Env : AsNew(disk, Slots, e)
  BY <1>2, <1>7, EbgAssumption DEF AsNew
<1>10. Newest(disk, Env) = Slots
  BY <1>2, <1>7, <1>9, NewestIs
<1>11. Cardinality(NewerThan(disk, Slots)) = 0
  <2>1. NewerThan(disk, Slots) = {}
    <3>1. \A f \in Env : f # Slots => ~AsNew(disk, f, Slots)
      BY <1>2, <1>7, EbgAssumption DEF AsNew
    <3> QED
      BY <3>1 DEF NewerThan
  <2> QED
    BY <2>1, FS_EmptySet
<1>12. LibInv(lib, disk) /\ ApplyInv /\ AckHolds
  BY <1>1, <1>7 DEF LibInv, ApplyInv, AckHolds
<1>13. DiskInv /\ CommitInv /\ UncommittedOffDisk /\ SuccessIsNext
  BY <1>1, <1>7 DEF DiskInv, CommitInv, UncommittedOffDisk, SuccessIsNext
<1>14. KeptInv
  BY <1>1, <1>2, <1>7, <1>11 DEF KeptInv, Copies
<1>15. FreshInv
  BY <1>1, <1>10 DEF FreshInv
<1> QED
  BY <1>8, <1>12, <1>13, <1>14, <1>15 DEF IInv

(* While an update is installed, its steps change the copy in memory.      *)
LEMMA BusyStep ==
  ASSUME IInv, pc # "idle",
         pc' \in {"begin", "begin2", "bootenv", "fail", "fail2", "commit", "commit2"},
         UNCHANGED <<disk, running, booted, commits, upd, last, failed, seen, acked, fresh, boots>>,
         lib' \in Lib, LibInv(lib', disk), todo' \subseteq upd.vars, faults' \in 0..MaxFaults,
         ApplyInv'
  PROVE  IInv'
<1>1. TypeOK'
  BY DEF IInv, TypeOK, Lib
<1>2. LibInv(lib, disk)'
  BY DEF LibInv
<1>3. DiskInv' /\ CommitInv' /\ KeptInv'
  BY DEF IInv, DiskInv, CommitInv, KeptInv
<1>4. FreshInv' /\ AckHolds'
  BY DEF IInv, FreshInv, AckHolds
<1>5. UncommittedOffDisk' /\ SuccessIsNext'
  BY DEF IInv, UncommittedOffDisk, SuccessIsNext
<1> QED
  BY <1>1, <1>2, <1>3, <1>4, <1>5, Zenon DEF IInv

(* What the parts of the invariant say of the types.                       *)
LEMMA Types ==
  ASSUME IInv
  PROVE  /\ TypeOK /\ LibInv(lib, disk) /\ DiskInv /\ lib \in Lib /\ disk \in [Env -> Environment]
         /\ upd.no \in 0..MaxUpdates /\ upd.no \in Nat /\ todo \subseteq upd.vars
         /\ upd.vars \subseteq Var
         /\ faults \in 0..MaxFaults
BY EbgAssumption DEF IInv, TypeOK, Lib

LEMMA BeginCall ==
  ASSUME IInv, NEW name \in {"transaction", "ustate"}, NEW r \in Calls(name, "in_progress"),
         Becomes(r, name, "in_progress")
  PROVE  disk' = disk /\ lib' \in Lib /\ LibInv(lib', disk) /\ faults' \in 0..MaxFaults
<1> DEFINE l == env_open_current(lib)
<1>1. PICK works \in BOOLEAN : r = do_env_set(name, "in_progress", works)
  BY Types, FaultFacts, Zenon
<1>2. r = Returns(TRUE, create_new_environment(l), disk)
  BY <1>1, CallFacts, Zenon
<1>3. create_new_environment(l) \in Lib /\ LibInv(create_new_environment(l), disk)
  BY Types, BeginFacts, Zenon
<1>4. r.lib = create_new_environment(l) /\ r.disk = disk
  BY <1>2 DEF Returns
<1> QED
  BY <1>3, <1>4, Types, FaultFacts, Zenon

LEMMA BeginStep == ASSUME IInv, begin \/ begin2 PROVE IInv' /\ disk' = disk
<1>1. /\ pc \in {"begin", "begin2"} /\ pc' \in {"begin2", "bootenv"}
      /\ UNCHANGED <<disk, lib, faults>>
         \/ \E name \in {"transaction", "ustate"} : \E r \in Calls(name, "in_progress") :
              Becomes(r, name, "in_progress")
      /\ UNCHANGED <<upd, todo, last, failed, fresh, running, booted, commits, boots, server>>
  BY Zenon DEF begin, begin2, marker, save_state
<1>2. disk' = disk /\ lib' \in Lib /\ LibInv(lib', disk) /\ faults' \in 0..MaxFaults
  BY <1>1, BeginCall, Types
<1>3. todo = upd.vars
  BY <1>1 DEF IInv, ApplyInv
<1>4. ApplyInv'
  BY <1>1, <1>3 DEF ApplyInv
<1> QED
  BY <1>1, <1>2, <1>3, <1>4, BusyStep DEF server

(* FAILED is not written.                                                  *)
LEMMA FailCall ==
  ASSUME IInv, NEW name \in {"transaction", "ustate"}, NEW r \in Calls(name, "failed"),
         Becomes(r, name, "failed")
  PROVE  /\ disk' = disk /\ lib' \in Lib /\ LibInv(lib', disk) /\ faults' \in 0..MaxFaults
         /\ lib'.inflight <=> lib.inflight
<1> DEFINE l == env_open_current(lib)
<1>1. PICK works \in BOOLEAN : r = do_env_set(name, "failed", works)
  BY Types, FaultFacts, Zenon
<1>2. /\ l \in Lib /\ l.open /\ LibInv(l, disk)
      /\ l.inflight <=> lib.inflight
  BY Types, OpenFacts, Zenon
<1>3. /\ name = "transaction"
           => r = IF lib.inflight THEN Returns(TRUE, env_set(l, "in_progress", 0), disk)
                  ELSE Returns(FALSE, lib, disk)
      /\ name = "ustate"
           => r = IF lib.inflight THEN Returns(TRUE, l, disk) ELSE Returns(FALSE, lib, disk)
  BY <1>1, CallFacts, Zenon
<1> HIDE DEF l
<1>4. r.disk = disk /\ (r.lib \in {lib, l} \/ (lib.inflight /\ r.lib = env_set(l, "in_progress", 0)))
  BY <1>3 DEF Returns
<1>5. CASE r.lib \in {lib, l}
  BY <1>2, <1>4, <1>5, Types, FaultFacts
<1>6. CASE lib.inflight /\ r.lib = env_set(l, "in_progress", 0)
  <2> DEFINE x == [Current(l) EXCEPT !.in_progress = 0]
  <2>1. x \in Environment /\ x.revision = Current(l).revision /\ x.vars = Current(l).vars
    <3>1. Current(l) \in Environment
      BY <1>2 DEF Lib, Current
    <3> QED
      BY <3>1 DEF Environment
  <2>2. env_set(l, "in_progress", 0) = With(l, x)
    <3>1. 0 \in 0..1
      OBVIOUS
    <3> QED
      BY <1>2, <3>1, SetFacts, Zenon
  <2> HIDE DEF x
  <2>3. With(l, x) \in Lib /\ (With(l, x).inflight <=> lib.inflight)
    BY <1>2, <2>1, WithFacts, Zenon
  <2>4. LibInv(With(l, x), disk)
    <3>1. \A v \in Var : x.vars[v] <= upd.no
      BY <1>2, <1>6, <2>1 DEF LibInv
    <3> QED
      BY <1>2, <1>6, <2>1, <3>1, WorkFacts, Zenon
  <2> QED
    BY <1>4, <1>6, <2>2, <2>3, <2>4, Types, FaultFacts, Zenon
<1> QED
  BY <1>4, <1>5, <1>6

LEMMA FailStep == ASSUME IInv, fail PROVE IInv' /\ disk' = disk
<1>1. /\ pc = "fail" /\ pc' = "fail2"
      /\ \/ UNCHANGED <<disk, lib, faults>>
         \/ \E r \in Calls("transaction", "failed") : Becomes(r, "transaction", "failed")
      /\ UNCHANGED <<upd, todo, last, failed, fresh, running, booted, commits, boots, server>>
  BY Zenon DEF fail, marker
<1>2. disk' = disk /\ lib' \in Lib /\ LibInv(lib', disk) /\ faults' \in 0..MaxFaults
  BY <1>1, FailCall, Types
<1>3. ApplyInv'
  BY <1>1 DEF ApplyInv
<1> QED
  BY <1>1, <1>2, <1>3, Types, BusyStep DEF server

(* do_env_unset changes the working copy in memory, which keeps what the   *)
(* update has set.                                                         *)
LEMMA UnsetStep == ASSUME IInv, unset_marker PROVE IInv' /\ disk' = disk
<1> DEFINE l == env_open_current(lib)
           x == [Current(l) EXCEPT !.in_progress = 0]
<1>1. /\ pc = "commit" /\ pc' = "commit2"
      /\ \/ UNCHANGED <<disk, lib, faults>>
         \/ lib' = do_env_unset("transaction").lib /\ UNCHANGED <<disk, faults>>
      /\ UNCHANGED <<upd, todo, last, failed, fresh, running, booted, commits, boots, server>>
  BY Zenon DEF unset_marker, marker
<1>2. /\ l \in Lib /\ l.open /\ LibInv(l, disk)
      /\ l.inflight <=> lib.inflight
      /\ lib.open => l = lib
  BY Types, OpenFacts, Zenon
<1>3. \/ lib' = lib \/ (~lib.inflight /\ lib' = l)
      \/ lib.inflight /\ lib' = env_set(l, "in_progress", 0)
  BY <1>1 DEF do_env_unset, Returns
<1>4. x \in Environment /\ x.revision = Current(l).revision /\ x.vars = Current(l).vars
  <2>1. Current(l) \in Environment
    BY <1>2 DEF Lib, Current
  <2> HIDE DEF l
  <2> QED
    BY <2>1 DEF Environment
<1>5. env_set(l, "in_progress", 0) = With(l, x)
  <2>1. 0 \in 0..1
    OBVIOUS
  <2> QED
    BY <1>2, <2>1, SetFacts, Zenon
<1> HIDE DEF l, x
<1>6. With(l, x) \in Lib /\ (With(l, x).inflight <=> lib.inflight) /\ Current(With(l, x)) = x
  BY <1>2, <1>4, WithFacts, Zenon
<1>7. lib.inflight => LibInv(With(l, x), disk)
  <2> SUFFICES ASSUME lib.inflight PROVE LibInv(With(l, x), disk)
    OBVIOUS
  <2>1. \A v \in Var : x.vars[v] <= upd.no
    BY <1>2, <1>4 DEF LibInv
  <2> QED
    BY <1>2, <1>4, <2>1, WorkFacts, Zenon
<1>8. lib' \in Lib /\ LibInv(lib', disk) /\ (lib'.inflight <=> lib.inflight)
  BY <1>2, <1>3, <1>5, <1>6, <1>7, Types
<1>9. lib.inflight => Current(lib').vars = Current(lib).vars
  <2> SUFFICES ASSUME lib.inflight PROVE Current(lib').vars = Current(lib).vars
    OBVIOUS
  <2>1. l = lib
    BY <1>2, Types DEF LibInv
  <2> QED
    BY <1>3, <1>4, <1>5, <1>6, <2>1
<1>10. ApplyInv'
  <2>1. todo = {} /\ \A v \in upd.vars \ todo : lib.inflight /\ Current(lib).vars[v] = upd.no
    BY <1>1 DEF IInv, ApplyInv
  <2>2. \A v \in upd.vars \ todo : lib'.inflight /\ Current(lib').vars[v] = upd.no
    BY <1>8, <1>9, <2>1
  <2> QED
    BY <1>1, <2>1, <2>2 DEF ApplyInv, Current
<1> QED
  BY <1>1, <1>8, <1>10, Types, BusyStep DEF server

(* A variable is set in the working copy, if there is one.                 *)
LEMMA ApplyStep == ASSUME IInv, do_apply_list PROVE IInv' /\ disk' = disk
<1> DEFINE l == env_open_current(lib)
<1>1. PICK v \in todo :
        /\ pc = "bootenv" /\ todo' = todo \ {v}
        /\ \E r \in Calls(v, upd.no) : Becomes(r, v, upd.no) /\ pc' = IF r.ok THEN pc ELSE "fail"
        /\ UNCHANGED <<upd, last, failed, fresh, running, booted, commits, boots, server>>
  BY Zenon DEF do_apply_list
<1>2. PICK r \in Calls(v, upd.no) : Becomes(r, v, upd.no) /\ pc' = IF r.ok THEN pc ELSE "fail"
  BY <1>1
<1>3. PICK works \in BOOLEAN : r = do_env_set(v, upd.no, works)
  BY <1>2, Types, FaultFacts, Zenon
<1>4. /\ l \in Lib /\ l.open /\ LibInv(l, disk)
      /\ l.inflight <=> lib.inflight
      /\ lib.open => l = lib
  BY Types, OpenFacts, Zenon
<1>5. v \in Var /\ v \in upd.vars
  BY Types
<1>6. r = IF lib.inflight THEN Returns(works, IF works THEN env_set(l, v, upd.no) ELSE l, disk)
          ELSE Returns(FALSE, lib, disk)
  BY <1>3, <1>5, Types, CallFacts, Zenon
<1> HIDE DEF l
<1>7. faults' \in 0..MaxFaults /\ lib' = r.lib /\ disk' = r.disk
  BY <1>2, Types, FaultFacts, Zenon
<1>8. CASE ~lib.inflight \/ works = FALSE
  <2>1. r.ok = FALSE /\ r.lib \in {lib, l} /\ r.disk = disk
    BY <1>6, <1>8 DEF Returns
  <2>2. lib' \in Lib /\ LibInv(lib', disk) /\ disk' = disk /\ pc' = "fail"
    BY <1>2, <1>4, <1>7, <2>1, Types
  <2>3. ApplyInv'
    BY <2>2 DEF ApplyInv
  <2> QED
    BY <1>1, <1>7, <2>2, <2>3, Types, BusyStep DEF server
<1>9. CASE lib.inflight /\ works = TRUE
  <2> DEFINE c == Current(l)
             x == [c EXCEPT !.vars = [@ EXCEPT ![v] = upd.no]]
  <2>1. r.ok = TRUE /\ r.lib = env_set(l, v, upd.no) /\ r.disk = disk /\ l = lib
    BY <1>4, <1>6, <1>9, Types DEF Returns, LibInv
  <2>2. /\ x \in Environment /\ x.revision = c.revision
        /\ x.vars = [c.vars EXCEPT ![v] = upd.no] /\ c.vars \in [Var -> 0..MaxUpdates]
    <3>1. c \in Environment
      BY <1>4 DEF Lib, Current
    <3> HIDE DEF c
    <3>2. [c.vars EXCEPT ![v] = upd.no] \in [Var -> 0..MaxUpdates] /\ c.vars \in [Var -> 0..MaxUpdates]
      BY <3>1, Types DEF Environment
    <3> QED
      BY <3>1, <3>2 DEF Environment
  <2>3. env_set(l, v, upd.no) = With(l, x)
    BY <1>4, <1>5, Types, SetFacts, Zenon
  <2> HIDE DEF x
  <2>4. \A w \in Var : x.vars[w] = IF w = v THEN upd.no ELSE c.vars[w]
    <3> HIDE DEF c
    <3> QED
      BY <2>2
  <2>5. lib' \in Lib /\ LibInv(lib', disk) /\ disk' = disk
    <3>1. \A w \in Var : x.vars[w] <= upd.no
      <4>1. \A w \in Var : c.vars[w] <= upd.no
        BY <1>4, <1>9, <2>1, Zenon DEF LibInv
      <4>2. upd.no \in Nat
        BY Types, Zenon
      <4> HIDE DEF c
      <4> QED
        BY <2>4, <4>1, <4>2
    <3>2. LibInv(With(l, x), disk)
      BY <1>4, <1>9, <2>2, <3>1, WorkFacts
    <3>3. With(l, x) \in Lib
      BY <1>4, <2>2, WithFacts, Zenon
    <3>4. lib' = With(l, x) /\ disk' = disk
      BY <1>7, <2>1, <2>3, Zenon
    <3> QED
      BY <3>2, <3>3, <3>4, Zenon
  <2>6. lib'.inflight /\ Current(lib') = x
    BY <1>4, <1>7, <1>9, <2>1, <2>2, <2>3, WithFacts
  <2>7. ApplyInv'
    <3>1. pc' = "bootenv"
      BY <1>1, <1>2, <2>1
    <3>2. \A w \in upd.vars \ todo : Current(lib).vars[w] = upd.no
      BY <1>1 DEF IInv, ApplyInv
    <3>3. \A w \in upd.vars \ todo' : lib'.inflight /\ Current(lib').vars[w] = upd.no
      BY <1>1, <2>1, <2>4, <2>6, <3>2, Types
    <3> QED
      BY <1>1, <3>1, <3>3 DEF ApplyInv, Current
  <2> QED
    BY <1>1, <1>2, <1>7, <2>1, <2>5, <2>7, Types, BusyStep DEF server
<1> QED
  BY <1>8, <1>9, Zenon

(* A step of the installation that does not touch the environment.         *)
LEMMA InstallStep == ASSUME IInv, install_fails \/ installed PROVE IInv' /\ disk' = disk
<1>1. /\ pc = "bootenv" /\ pc' \in {"fail", "commit"} /\ (pc' = "commit" => todo = {})
      /\ UNCHANGED <<disk, lib, upd, todo, last, failed, fresh, server, history>>
  BY DEF install_fails, installed
<1>2. ApplyInv'
  BY <1>1 DEF IInv, ApplyInv
<1> QED
  BY <1>1, <1>2, Types, BusyStep, Zenon DEF server, history

(* An update fails: nothing of it is on the disk.                          *)
LEMMA EndStep ==
  ASSUME IInv, pc # "idle", Ends("failure"), disk' = disk, lib' \in Lib, LibInv(lib', disk),
         faults' \in 0..MaxFaults,
         UNCHANGED <<running, booted, commits, upd, todo, seen, acked, fresh, boots>>
  PROVE  IInv'
<1>1. pc' = "idle" /\ last' = "failure" /\ failed' = failed \cup {upd.no}
  BY DEF Ends
<1>2. commits < upd.no /\ commits \in Nat /\ ~fresh
  BY DEF IInv, CommitInv, TypeOK, FreshInv
<1>3. failed' \subseteq 1..MaxUpdates
  <2>1. upd.no \in 1..MaxUpdates
    BY <1>2, Types, EbgAssumption
  <2>2. failed \subseteq 1..MaxUpdates
    BY DEF IInv, TypeOK
  <2> QED
    BY <1>1, <2>1, <2>2, Zenon
<1>4. TypeOK'
  BY <1>1, <1>3 DEF IInv, TypeOK, Lib
<1>5. LibInv(lib, disk)'
  BY DEF LibInv
<1>6. DiskInv' /\ KeptInv' /\ ApplyInv'
  BY <1>1 DEF IInv, DiskInv, KeptInv, ApplyInv
<1>7. CommitInv'
  <2>1. commits <= upd.no
    BY <1>2, Types
  <2> QED
    BY <1>1, <1>2, <2>1, Zenon DEF CommitInv
<1>8. FreshInv' /\ AckHolds'
  BY <1>2 DEF FreshInv, AckHolds
<1>9. UncommittedOffDisk' /\ SuccessIsNext'
  BY <1>1 DEF IInv, UncommittedOffDisk, SuccessIsNext
<1> QED
  BY <1>4, <1>5, <1>6, <1>7, <1>8, <1>9 DEF IInv

LEMMA FailureStep == ASSUME IInv, extract_fails \/ fail2 PROVE IInv' /\ disk' = disk
<1>1. CASE extract_fails
  BY <1>1, Types, EndStep DEF extract_fails, server, history
<1>2. CASE fail2
  <2>1. /\ pc = "fail2" /\ Ends("failure")
        /\ UNCHANGED <<disk, lib, faults>>
           \/ \E r \in Calls("ustate", "failed") : Becomes(r, "ustate", "failed")
        /\ UNCHANGED <<upd, todo, fresh, running, booted, commits, boots, server>>
    BY <1>2, Zenon DEF fail2, save_state
  <2>2. disk' = disk /\ lib' \in Lib /\ LibInv(lib', disk) /\ faults' \in 0..MaxFaults
    BY <2>1, FailCall, Types, Zenon
  <2> QED
    BY <2>1, <2>2, EndStep DEF server
<1> QED
  BY <1>1, <1>2

(* A new update has a number that is nowhere on the disk.                  *)
LEMMA NewStep == ASSUME IInv, network_initializer PROVE IInv' /\ disk' = disk
<1>1. PICK V \in SUBSET Var, t \in BOOLEAN, s \in BOOLEAN :
        /\ upd' = [no |-> upd.no + 1, vars |-> V, transaction |-> t, state |-> s]
        /\ todo' = V
  BY Zenon DEF network_initializer
<1>2. /\ pc = "idle" /\ upd.no < MaxUpdates /\ pc' = "begin" /\ last' = "none" /\ fresh' = FALSE
      /\ UNCHANGED <<disk, lib, failed, server, history>>
  BY DEF network_initializer
<1>3. /\ upd'.no = upd.no + 1 /\ upd'.vars = V /\ upd'.no \in 0..MaxUpdates
      /\ upd' \in [no: 0..MaxUpdates, vars: SUBSET Var, transaction: BOOLEAN, state: BOOLEAN]
  BY <1>1, <1>2, Types, EbgAssumption
<1>4. TypeOK'
  BY <1>1, <1>2, <1>3, Zenon DEF IInv, TypeOK, server, history
<1>5. \A e \in Env : disk[e] \in Environment /\ \A v \in Var : disk[e].vars[v] \in Nat
  BY Types, EbgAssumption DEF Environment
<1>6. DiskInv' /\ UncommittedOffDisk'
  BY <1>2, <1>3, <1>5, Types DEF DiskInv, UncommittedOffDisk
<1>7. LibInv(lib, disk)'
  <2>1. lib.inflight => \A v \in Var : Current(lib).vars[v] <= upd.no /\ Current(lib).vars[v] \in Nat
    <3>1. Current(lib) \in Environment
      BY Types DEF Lib, Current
    <3> QED
      BY <3>1, Types, EbgAssumption DEF LibInv, Environment
  <2>2. lib.inflight => \A v \in Var : Current(lib).vars[v] <= upd'.no
    BY <1>3, <2>1, Types
  <2>3. UNCHANGED <<lib, disk>>
    BY <1>2
  <2> QED
    BY <2>2, <2>3, Types DEF LibInv, Current
<1>8. ApplyInv' /\ FreshInv' /\ AckHolds' /\ SuccessIsNext'
  BY <1>1, <1>2, <1>3, Zenon DEF ApplyInv, FreshInv, AckHolds, SuccessIsNext
<1>9. CommitInv' /\ KeptInv'
  <2>1. commits <= upd.no /\ commits \in Nat
    BY DEF IInv, CommitInv, TypeOK
  <2>2. commits' = commits /\ running' = running /\ booted' = booted
    BY <1>2, Zenon DEF history
  <2>3. commits < upd'.no /\ commits <= upd'.no
    BY <1>3, <2>1, Types
  <2>4. CommitInv'
    BY <1>2, <2>2, <2>3, Zenon DEF CommitInv
  <2>5. KeptInv'
    BY <1>2, <2>2, Zenon DEF IInv, KeptInv
  <2> QED
    BY <2>4, <2>5
<1> QED
  BY <1>2, <1>4, <1>6, <1>7, <1>8, <1>9 DEF IInv

(* The working copy gets to the disk: it is the boot path there, and what  *)
(* runs is not what it replaces, unless the commits have gone round.       *)
LEMMA CommitDisk ==
  ASSUME IInv, lib.inflight, NEW x \in Environment,
         x.revision = Current(lib).revision, x.vars = Current(lib).vars, x.in_progress = 0,
         disk' = [disk EXCEPT ![lib.cur] = x], UNCHANGED <<running, booted, upd>>,
         commits' = IF disk' # disk THEN commits + 1 ELSE commits
  PROVE  /\ disk' \in [Env -> Environment] /\ DiskInv' /\ KeptInv'
         /\ Newest(disk', Env) = lib.cur /\ disk'[lib.cur] = x
         /\ disk'[Newest(disk, Env)] = disk[Newest(disk, Env)]
<1>1. /\ lib.cur \in Env /\ lib.cur = Oldest(disk)
      /\ \A e \in Env : disk[e].revision < x.revision
      /\ \A v \in Var : x.vars[v] <= upd.no
  BY Types DEF LibInv, Lib
<1>2. \A e \in Env : disk[e].revision \in Nat
  BY Types, Revisions
<1>3. /\ disk' \in [Env -> Environment] /\ disk'[lib.cur] = x
      /\ \A e \in Env \ {lib.cur} : disk'[e] = disk[e]
  BY <1>1, Types
<1>4. \A e \in Env : disk'[e].revision \in Nat
  BY <1>3 DEF Environment
<1>5. \A e \in Env : AsNew(disk', lib.cur, e)
  <2>1. ASSUME NEW e \in Env PROVE AsNew(disk', lib.cur, e)
    <3>1. CASE e = lib.cur
      <4>1. lib.cur <= lib.cur
        BY <1>1 DEF Env
      <4> QED
        BY <3>1, <4>1 DEF AsNew
    <3>2. CASE e # lib.cur
      BY <1>1, <1>3, <3>2 DEF AsNew
    <3> QED
      BY <3>1, <3>2
  <2> QED
    BY <2>1, Zenon
<1>6. Newest(disk', Env) = lib.cur
  BY <1>1, <1>4, <1>5, NewestIs, Zenon
<1>7. disk'[Newest(disk, Env)] = disk[Newest(disk, Env)]
  BY <1>1, <1>2, <1>3, NewestIs, OldestIsNotNewest
<1>8. DiskInv'
  <2>1. ASSUME NEW e \in Env
        PROVE  disk'[e].in_progress = 0 /\ \A v \in Var : disk'[e].vars[v] <= upd.no
    <3>1. CASE e = lib.cur
      BY <1>1, <1>3, <3>1
    <3>2. CASE e # lib.cur
      BY <1>3, <3>2, Types DEF DiskInv
    <3> QED
      BY <3>1, <3>2
  <2> QED
    BY <2>1 DEF DiskInv
<1>9. KeptInv'
  <2> SUFFICES ASSUME commits' < Slots
               PROVE  /\ Copies(disk'[running], booted) /\ disk'[running].in_progress = 0
                      /\ Cardinality(NewerThan(disk', running)) <= commits'
    BY DEF KeptInv
  <2>1. running \in Env /\ commits \in Nat
    BY DEF IInv, TypeOK
  <2>2. CASE disk' = disk
    BY <2>2 DEF IInv, KeptInv
  <2>3. CASE disk' # disk
    <3> DEFINE A == NewerThan(disk, running)
    <3>1. /\ commits' = commits + 1 /\ commits < Slots - 1
          /\ Copies(disk[running], booted) /\ disk[running].in_progress = 0
          /\ Cardinality(A) <= commits
      BY <2>1, <2>3, EnvFinite DEF IInv, KeptInv
    <3>2. running # lib.cur
      <4> SUFFICES ASSUME running = lib.cur PROVE FALSE
        OBVIOUS
      <4>1. A = Env \ {running}
        <5>1. \A f \in Env : AsNew(disk, f, running)
          BY <1>1, <1>2, OldestIs
        <5> QED
          BY <5>1, Zenon DEF NewerThan
      <4>2. Cardinality(A) = Slots - 1
        BY <2>1, <4>1, EnvFinite, FS_RemoveElement, Zenon
      <4> QED
        BY <2>1, <3>1, <4>2, EnvFinite
    <3>3. disk'[running] = disk[running]
      BY <1>3, <2>1, <3>2
    <3>4. NewerThan(disk', running) \subseteq A \cup {lib.cur}
      <4>1. ASSUME NEW f \in Env, f # lib.cur, AsNew(disk', f, running)
            PROVE  AsNew(disk, f, running)
        BY <1>3, <3>3, <4>1 DEF AsNew
      <4> QED
        BY <4>1, Zenon DEF NewerThan
    <3>5. IsFiniteSet(A)
      <4>1. A \subseteq Env
        BY DEF NewerThan
      <4> QED
        BY <4>1, EnvFinite, FS_Subset
    <3> HIDE DEF A
    <3>6. Cardinality(A) \in Nat
      BY <3>5, FS_CardinalityType
    <3>7. /\ IsFiniteSet(A \cup {lib.cur}) /\ Cardinality(A \cup {lib.cur}) <= Cardinality(A) + 1
          /\ Cardinality(A \cup {lib.cur}) \in Nat
      <4>1. IsFiniteSet(A \cup {lib.cur})
        BY <3>5, FS_AddElement, Zenon
      <4>2. Cardinality(A \cup {lib.cur}) \in Nat
        BY <4>1, FS_CardinalityType, Zenon
      <4>3. Cardinality(A \cup {lib.cur})
              = IF lib.cur \in A THEN Cardinality(A) ELSE Cardinality(A) + 1
        BY <3>5, FS_AddElement, Zenon
      <4> QED
        BY <3>6, <4>1, <4>2, <4>3
    <3>8. /\ Cardinality(NewerThan(disk', running)) <= Cardinality(A \cup {lib.cur})
          /\ Cardinality(NewerThan(disk', running)) \in Nat
      BY <3>4, <3>7, FS_Subset, FS_CardinalityType, Zenon
    <3> QED
      BY <2>1, <3>1, <3>3, <3>6, <3>7, <3>8
  <2> QED
    BY <2>2, <2>3
<1> QED
  BY <1>3, <1>6, <1>7, <1>8, <1>9

LEMMA CommitCall ==
  ASSUME IInv, NEW r \in Calls("ustate", "installed"), Becomes(r, "ustate", "installed")
  PROVE  /\ faults' \in 0..MaxFaults /\ lib' \in Lib
         /\ \/ /\ r.ok = FALSE /\ disk' = disk /\ LibInv(lib', disk)
               /\ lib'.inflight <=> lib.inflight
            \/ /\ r.ok = TRUE /\ lib.inflight /\ ~lib'.open /\ ~lib'.inflight
               /\ \E x \in Environment :
                    /\ x.revision = Current(lib).revision /\ x.vars = Current(lib).vars
                    /\ x.in_progress = 0 /\ x.ustate = "installed"
                    /\ disk' = [disk EXCEPT ![lib.cur] = x]
<1>1. PICK works \in BOOLEAN : r = do_env_set("ustate", "installed", works)
  BY Types, FaultFacts, Zenon
<1>2. faults' \in 0..MaxFaults /\ lib' = r.lib /\ disk' = r.disk
  BY Types, FaultFacts, Zenon
<1>3. CASE ~lib.inflight
  <2>1. r = Returns(FALSE, lib, disk)
    BY <1>1, <1>3, CallFacts, Zenon
  <2>2. r.ok = FALSE /\ r.lib = lib /\ r.disk = disk
    BY <2>1 DEF Returns
  <2> QED
    BY <1>2, <2>2, Types
<1>4. CASE lib.inflight
  <2>1. lib.open /\ env_open_current(lib) = lib
    BY <1>4, Types DEF LibInv, env_open_current
  <2>2. r = commit(lib, works)
    BY <1>1, <1>4, <2>1, CallFacts, Zenon
  <2>3. PICK x \in Environment :
           /\ x.revision = Current(lib).revision /\ x.vars = Current(lib).vars
           /\ x.in_progress = 0 /\ x.ustate = "installed"
           /\ \/ /\ r.ok = TRUE /\ r.disk = [disk EXCEPT ![lib.cur] = x]
                 /\ r.lib \in Lib /\ ~r.lib.open /\ ~r.lib.inflight
              \/ r.ok = FALSE /\ r.disk = disk /\ r.lib = With(lib, x)
    BY <1>4, <2>1, <2>2, Types, CommitFacts, Zenon
  <2>4. CASE r.ok = TRUE /\ r.disk = [disk EXCEPT ![lib.cur] = x]
             /\ r.lib \in Lib /\ ~r.lib.open /\ ~r.lib.inflight
    BY <1>2, <1>4, <2>3, <2>4, Zenon
  <2>5. CASE r.ok = FALSE /\ r.disk = disk /\ r.lib = With(lib, x)
    <3>1. \A v \in Var : x.vars[v] <= upd.no
      BY <1>4, <2>3, Types, Zenon DEF LibInv
    <3>2. LibInv(With(lib, x), disk)
      BY <1>4, <2>3, <3>1, Types, WorkFacts, Zenon
    <3>3. With(lib, x) \in Lib /\ (With(lib, x).inflight <=> lib.inflight)
      BY Types, WithFacts, Zenon
    <3> QED
      BY <1>2, <2>5, <3>2, <3>3, Zenon
  <2> QED
    BY <2>3, <2>4, <2>5, Zenon
<1> QED
  BY <1>3, <1>4, Zenon

(* A transaction in flight is not counted yet.                             *)
LEMMA CommitCount ==
  ASSUME IInv, lib.inflight, NEW n, n \in {commits, commits + 1}
  PROVE  n <= upd.no /\ n \in 0..MaxUpdates
<1>1. commits < upd.no /\ commits \in Nat
  BY DEF IInv, CommitInv, TypeOK
<1>2. upd.no \in 0..MaxUpdates
  BY Types, Zenon
<1> QED
  BY <1>1, <1>2, EbgAssumption

LEMMA CommitStep ==
  ASSUME IInv, lib.inflight, ~fresh, NEW x \in Environment,
         x.revision = Current(lib).revision, x.vars = Current(lib).vars,
         x.in_progress = 0, x.ustate = "installed",
         upd.state => \A v \in upd.vars : x.vars[v] = upd.no,
         disk' = [disk EXCEPT ![lib.cur] = x],
         lib' \in Lib, ~lib'.open, ~lib'.inflight, faults' \in 0..MaxFaults,
         pc' = "idle", last' = "success",
         commits' = IF disk' # disk THEN commits + 1 ELSE commits,
         UNCHANGED <<upd, todo, failed, fresh, running, booted, boots, seen, acked>>
  PROVE  IInv' /\ disk'[Newest(disk, Env)] = disk[Newest(disk, Env)]
<1>1. /\ disk' \in [Env -> Environment] /\ DiskInv' /\ KeptInv'
      /\ Newest(disk', Env) = lib.cur /\ disk'[lib.cur] = x
      /\ disk'[Newest(disk, Env)] = disk[Newest(disk, Env)]
  BY CommitDisk, Zenon
<1>2. commits' \in 0..MaxUpdates /\ CommitInv'
  <2>1. commits' \in {commits, commits + 1}
    BY Zenon
  <2>2. commits' <= upd.no /\ commits' \in 0..MaxUpdates
    BY <2>1, CommitCount, Zenon
  <2> QED
    BY <2>2, Zenon DEF CommitInv
<1>3. TypeOK'
  BY <1>1, <1>2, Zenon DEF IInv, TypeOK, Lib
<1>4. LibInv(lib, disk)' /\ ApplyInv' /\ FreshInv' /\ AckHolds' /\ UncommittedOffDisk'
  BY Zenon DEF LibInv, ApplyInv, FreshInv, AckHolds, UncommittedOffDisk
<1>5. SuccessIsNext'
  <2>1. BootPath(disk') = lib.cur
    <3>1. \A e \in Env : disk'[e].in_progress = 0
      BY <1>1, Zenon DEF DiskInv
    <3> QED
      BY <1>1, <3>1, BootPathIs, Zenon
  <2> QED
    BY <1>1, <2>1, Zenon DEF SuccessIsNext
<1> QED
  BY <1>1, <1>2, <1>3, <1>4, <1>5, Zenon DEF IInv

(* Of the boot path only the state changes, from TESTING to OK.            *)
BootKept ==
  LET p == Newest(disk, Env)
  IN  disk'[p] \in {disk[p], [disk[p] EXCEPT !.ustate = IF @ = "testing" THEN "ok" ELSE @]}

LEMMA Commit2Step == ASSUME IInv, commit2 PROVE IInv' /\ BootKept
<1>1. PICK ok \in BOOLEAN : save_state("installed", ok) /\ Ends(IF ok THEN "success" ELSE "failure")
  BY DEF commit2
<1>2. /\ pc = "commit2" /\ commits' = IF disk' # disk THEN commits + 1 ELSE commits
      /\ UNCHANGED <<upd, todo, fresh, running, booted, boots, seen, acked>>
  BY DEF commit2, server
<1>3. ~fresh /\ \A v \in upd.vars : lib.inflight /\ Current(lib).vars[v] = upd.no
  BY <1>2, Zenon DEF IInv, FreshInv, ApplyInv
<1>4. CASE ~upd.state
  <2>1. ok = TRUE /\ UNCHANGED <<disk, lib, faults>>
    BY <1>1, <1>4, Zenon DEF save_state
  <2>2. pc' = "idle" /\ last' = "success" /\ failed' = failed /\ commits' = commits
    BY <1>1, <1>2, <2>1 DEF Ends
  <2>3. TypeOK'
    BY <1>2, <2>1, <2>2 DEF IInv, TypeOK
  <2>4. LibInv(lib, disk)' /\ DiskInv' /\ ApplyInv'
    BY <1>2, <2>1, <2>2, Zenon DEF IInv, LibInv, DiskInv, ApplyInv
  <2>5. KeptInv' /\ FreshInv' /\ AckHolds'
    BY <1>2, <1>3, <2>1, <2>2, Zenon DEF IInv, KeptInv, FreshInv, AckHolds
  <2>6. CommitInv' /\ UncommittedOffDisk' /\ SuccessIsNext'
    BY <1>2, <1>4, <2>1, <2>2, Zenon DEF IInv, CommitInv, UncommittedOffDisk, SuccessIsNext
  <2> QED
    BY <2>1, <2>3, <2>4, <2>5, <2>6 DEF IInv, BootKept
<1>5. CASE upd.state
  <2>1. PICK r \in Calls("ustate", "installed") : ok = r.ok /\ Becomes(r, "ustate", "installed")
    BY <1>1, <1>5, Zenon DEF save_state
  <2>2. faults' \in 0..MaxFaults /\ lib' \in Lib
    BY <2>1, CommitCall, Zenon
  <2>3. CASE ok = FALSE
    <3>1. disk' = disk /\ LibInv(lib', disk)
      BY <2>1, <2>3, CommitCall, Zenon
    <3> QED
      BY <1>1, <1>2, <2>2, <2>3, <3>1, EndStep DEF BootKept
  <2>4. CASE ok = TRUE
    <3>1. /\ lib.inflight /\ ~lib'.open /\ ~lib'.inflight
          /\ \E x \in Environment :
                /\ x.revision = Current(lib).revision /\ x.vars = Current(lib).vars
                /\ x.in_progress = 0 /\ x.ustate = "installed"
                /\ disk' = [disk EXCEPT ![lib.cur] = x]
      BY <2>1, <2>4, CommitCall, Zenon
    <3>2. PICK x \in Environment :
                /\ x.revision = Current(lib).revision /\ x.vars = Current(lib).vars
                /\ x.in_progress = 0 /\ x.ustate = "installed"
                /\ disk' = [disk EXCEPT ![lib.cur] = x]
      BY <3>1, Zenon
    <3>3. pc' = "idle" /\ last' = "success" /\ failed' = failed
      BY <1>1, <2>4 DEF Ends
    <3>4. \A v \in upd.vars : x.vars[v] = upd.no
      BY <1>3, <3>2
    <3> QED
      BY <1>2, <1>3, <2>2, <3>1, <3>2, <3>3, <3>4, CommitStep, Zenon DEF BootKept
  <2> QED
    BY <2>3, <2>4, Zenon
<1> QED
  BY <1>4, <1>5

(* A client commits what was installed without the state marker.           *)
LEMMA ActivateStep == ASSUME IInv, activate PROVE IInv' /\ BootKept
<1>1. PICK r \in Calls("ustate", "installed") : Becomes(r, "ustate", "installed")
  BY DEF activate
<1>2. /\ pc = "idle" /\ last = "success" /\ ~upd.state /\ lib.inflight
      /\ commits' = IF disk' # disk THEN commits + 1 ELSE commits
      /\ UNCHANGED <<pc, upd, todo, last, failed, fresh, seen, acked, running, booted, boots>>
  BY DEF activate, installer, server
<1>3. faults' \in 0..MaxFaults /\ lib' \in Lib /\ ~fresh
  BY <1>1, <1>2, CommitCall, Zenon DEF IInv, FreshInv
<1>4. CASE r.ok = FALSE
  <2>1. disk' = disk /\ LibInv(lib', disk) /\ (lib'.inflight <=> lib.inflight) /\ commits' = commits
    BY <1>1, <1>2, <1>4, CommitCall, Zenon
  <2>2. TypeOK'
    BY <1>2, <1>3, <2>1 DEF IInv, TypeOK, Lib
  <2>3. LibInv(lib, disk)' /\ ApplyInv'
    BY <1>2, <2>1, Zenon DEF LibInv, ApplyInv
  <2>4. DiskInv' /\ KeptInv' /\ FreshInv' /\ AckHolds'
    BY <1>2, <1>3, <2>1, Zenon DEF IInv, DiskInv, KeptInv, FreshInv, AckHolds
  <2>5. CommitInv' /\ UncommittedOffDisk' /\ SuccessIsNext'
    BY <1>2, <2>1, Zenon DEF IInv, CommitInv, UncommittedOffDisk, SuccessIsNext
  <2> QED
    BY <2>1, <2>2, <2>3, <2>4, <2>5 DEF IInv, BootKept
<1>5. CASE r.ok # FALSE
  <2>1. /\ ~lib'.open /\ ~lib'.inflight
        /\ \E x \in Environment :
              /\ x.revision = Current(lib).revision /\ x.vars = Current(lib).vars
              /\ x.in_progress = 0 /\ x.ustate = "installed"
              /\ disk' = [disk EXCEPT ![lib.cur] = x]
    BY <1>1, <1>5, CommitCall, Zenon
  <2>2. PICK x \in Environment :
              /\ x.revision = Current(lib).revision /\ x.vars = Current(lib).vars
              /\ x.in_progress = 0 /\ x.ustate = "installed"
              /\ disk' = [disk EXCEPT ![lib.cur] = x]
    BY <2>1, Zenon
  <2> QED
    BY <1>2, <1>3, <2>1, <2>2, CommitStep, Zenon DEF BootKept
<1> QED
  BY <1>4, <1>5, Zenon

(* Asking for the state opens the environment.                             *)
LEMMA GetStep == ASSUME IInv, get_state PROVE IInv' /\ disk' = disk
<1> DEFINE l == env_open_current(lib)
<1>1. /\ seen' = do_env_get_ustate /\ lib' = l
      /\ UNCHANGED <<disk, pc, upd, todo, last, failed, fresh, acked, running, booted,
                     commits, boots, faults>>
  BY DEF get_state, installer, history
<1>2. /\ l \in Lib /\ l.open /\ LibInv(l, disk)
      /\ l.inflight <=> lib.inflight
      /\ lib.open => l = lib
  BY Types, OpenFacts, Zenon
<1>3. do_env_get_ustate = IF l.inflight THEN Current(l).ustate ELSE env_getglobalstate(l)
  BY DEF do_env_get_ustate
<1> HIDE DEF l
<1>4. Current(l) \in Environment
  BY <1>2 DEF Lib, Current
<1>5. seen' \in State \cup {"none"}
  BY <1>1, <1>3, <1>4, Zenon DEF env_getglobalstate, Environment, State
<1>6. TypeOK'
  BY <1>1, <1>2, <1>5 DEF IInv, TypeOK, Lib
<1>7. LibInv(lib, disk)'
  BY <1>1, <1>2, Zenon DEF LibInv
<1>8. DiskInv' /\ KeptInv' /\ AckHolds' /\ CommitInv' /\ UncommittedOffDisk' /\ SuccessIsNext'
  BY <1>1, <1>2, Zenon
     DEF IInv, DiskInv, KeptInv, AckHolds, CommitInv, UncommittedOffDisk, SuccessIsNext
<1>9. ApplyInv'
  <2>1. lib.inflight => l = lib
    BY <1>2, Types, Zenon DEF LibInv
  <2> QED
    BY <1>1, <1>2, <2>1, Zenon DEF IInv, ApplyInv, Current
<1>10. FreshInv'
  BY <1>1, <1>2, <1>3 DEF IInv, FreshInv
<1> QED
  BY <1>1, <1>6, <1>7, <1>8, <1>9, <1>10 DEF IInv

(* An acknowledgement, within a transaction or outside of one.             *)
LEMMA AckStep == ASSUME IInv, set_state_ok PROVE IInv' /\ BootKept
<1> DEFINE l == env_open_current(lib)
<1>1. PICK r \in Calls("ustate", "ok") :
        Becomes(r, "ustate", "ok") /\ acked' = (acked \/ (r.ok /\ seen = "testing"))
  BY DEF set_state_ok
<1>2. /\ seen' = "ok"
      /\ UNCHANGED <<pc, upd, todo, last, failed, fresh, running, booted, commits, boots>>
  BY DEF set_state_ok, installer
<1>3. faults' \in 0..MaxFaults /\ lib' = r.lib /\ disk' = r.disk
  BY <1>1, Types, FaultFacts, Zenon
<1>4. PICK works \in BOOLEAN : r = do_env_set("ustate", "ok", works)
  BY <1>1, Types, FaultFacts, Zenon
<1>5. r = acknowledge(l, works)
  BY <1>4, CallFacts, Zenon
<1>6. /\ l \in Lib /\ l.open /\ LibInv(l, disk)
      /\ l.inflight <=> lib.inflight
      /\ lib.open => l = lib
  BY Types, OpenFacts, Zenon
<1> HIDE DEF l
<1>7. acked' \in BOOLEAN
  BY <1>1, Zenon DEF IInv, TypeOK
<1>8. CASE lib.inflight
  <2> DEFINE x == [Current(l) EXCEPT !.ustate = "ok"]
  <2>1. l = lib /\ ~fresh
    BY <1>6, <1>8, Types, Zenon DEF LibInv, IInv, FreshInv
  <2>2. r.lib = env_set(l, "ustate", "ok") /\ r.disk = disk
    BY <1>5, <1>6, <1>8 DEF acknowledge, Returns
  <2>3. x \in Environment /\ x.revision = Current(l).revision /\ x.vars = Current(l).vars
    <3>1. Current(l) \in Environment
      BY <1>6 DEF Lib, Current
    <3> QED
      BY <3>1 DEF Environment, State
  <2>4. env_set(l, "ustate", "ok") = With(l, x)
    BY <1>6, SetFacts, Zenon DEF State
  <2> HIDE DEF x
  <2>5. lib' \in Lib /\ (lib'.inflight <=> lib.inflight) /\ Current(lib') = x
    <3>1. lib' = With(l, x)
      BY <1>3, <2>2, <2>4
    <3>2. With(l, x) \in Lib /\ With(l, x).inflight = l.inflight /\ Current(With(l, x)) = x
      BY <1>6, <2>3, WithFacts, Zenon
    <3> QED
      BY <1>6, <3>1, <3>2
  <2>6. LibInv(lib', disk)
    <3>1. \A v \in Var : x.vars[v] <= upd.no
      BY <1>6, <1>8, <2>3 DEF LibInv
    <3> QED
      BY <1>3, <1>6, <1>8, <2>2, <2>3, <2>4, <3>1, WorkFacts, Zenon
  <2>7. disk' = disk
    BY <1>3, <2>2
  <2>8. TypeOK'
    BY <1>2, <1>3, <1>7, <2>5, <2>7, Zenon DEF IInv, TypeOK, Lib, State
  <2>9. LibInv(lib, disk)'
    BY <1>2, <2>6, <2>7, Zenon DEF LibInv
  <2>10. ApplyInv'
    BY <1>2, <2>1, <2>3, <2>5 DEF IInv, ApplyInv, Current
  <2>11. DiskInv' /\ KeptInv' /\ FreshInv' /\ AckHolds'
    BY <1>2, <2>1, <2>7, Zenon DEF IInv, DiskInv, KeptInv, FreshInv, AckHolds
  <2>12. CommitInv' /\ UncommittedOffDisk' /\ SuccessIsNext'
    BY <1>2, <2>5, <2>7 DEF IInv, CommitInv, UncommittedOffDisk, SuccessIsNext
  <2> QED
    BY <2>7, <2>8, <2>9, <2>10, <2>11, <2>12 DEF IInv, BootKept
<1>9. CASE ~lib.inflight
  <2>1. AckOutcome(r, l)
    BY <1>5, <1>6, <1>9, Types, AckFacts, Zenon
  <2>2. /\ lib' \in Lib /\ disk' \in [Env -> Environment] /\ ~lib'.inflight /\ LibInv(lib', disk')
        /\ \A e \in Env : Copies(disk'[e], disk[e])
        /\ \/ disk'[l.cur].ustate = disk[l.cur].ustate
           \/ disk[l.cur].ustate = "testing" /\ disk'[l.cur].ustate = "ok"
        /\ r.ok /\ env_getglobalstate(l) = "testing" => disk'[l.cur].ustate = "ok"
    BY <1>3, <2>1, Zenon DEF AckOutcome
  <2>3. l.cur = Newest(disk, Env) /\ l.cur \in Env
    BY <1>6, <1>9, Zenon DEF LibInv, Lib
  <2>4. \A e \in Env : disk'[e].revision = disk[e].revision /\ disk[e].revision \in Nat
    BY <2>2, Types, Revisions DEF Copies
  <2>5. /\ Newest(disk', Env) = l.cur
        /\ \A e \in Env : NewerThan(disk', e) = NewerThan(disk, e)
    BY <2>3, <2>4, OrderFrame, Zenon
  <2>6. TypeOK'
    BY <1>2, <1>3, <1>7, <2>2, Zenon DEF IInv, TypeOK, Lib, State
  <2>7. LibInv(lib, disk)'
    BY <1>2, <2>2, Zenon DEF LibInv
  <2>8. DiskInv' /\ UncommittedOffDisk'
    BY <1>2, <2>2, Zenon DEF IInv, DiskInv, UncommittedOffDisk, Copies
  <2>9. ApplyInv' /\ CommitInv'
    BY <1>2, <1>9, <2>2, Zenon DEF IInv, ApplyInv, CommitInv
  <2>10. running \in Env
    BY DEF IInv, TypeOK
  <2>11. KeptInv'
    BY <1>2, <2>2, <2>5, <2>10, Zenon DEF IInv, KeptInv, Copies
  <2>12. FreshInv'
    BY <1>2, <2>2, <2>3, <2>5, Zenon DEF IInv, FreshInv
  <2>13. AckHolds'
    <3> SUFFICES ASSUME acked', fresh PROVE disk'[running].ustate = "ok"
      BY <1>2, Zenon DEF AckHolds
    <3>1. running = l.cur
      BY <2>3 DEF IInv, FreshInv
    <3>2. CASE acked
      BY <2>2, <3>1, <3>2 DEF IInv, AckHolds
    <3>3. CASE ~acked
      <4>1. r.ok /\ seen = "testing"
        BY <1>1, <3>3, Zenon
      <4>2. env_getglobalstate(l) = "testing"
        BY <1>6, <4>1 DEF IInv, FreshInv
      <4> QED
        BY <2>2, <3>1, <4>1, <4>2
    <3> QED
      BY <3>2, <3>3
  <2>14. SuccessIsNext'
    <3>1. \A e \in Env : disk[e].in_progress = 0 /\ disk'[e].in_progress = 0
      BY <2>8, Types DEF DiskInv
    <3>2. BootPath(disk') = l.cur /\ BootPath(disk) = l.cur
      BY <2>3, <2>5, <3>1, BootPathIs, Zenon
    <3>3. disk'[l.cur].vars = disk[l.cur].vars
      BY <2>2, <2>3 DEF Copies
    <3> QED
      BY <1>2, <2>2, <3>2, <3>3, Zenon DEF IInv, SuccessIsNext
  <2>15. BootKept
    <3>1. Copies(disk'[l.cur], disk[l.cur]) /\ disk[l.cur] \in Environment /\ disk'[l.cur] \in Environment
      BY <2>2, <2>3, Types
    <3>2. CASE disk'[l.cur].ustate = disk[l.cur].ustate
      <4>1. disk'[l.cur] = disk[l.cur]
        BY <3>1, <3>2 DEF Copies, Environment
      <4> QED
        BY <2>3, <4>1 DEF BootKept
    <3>3. CASE disk[l.cur].ustate = "testing" /\ disk'[l.cur].ustate = "ok"
      <4>1. disk'[l.cur] = [disk[l.cur] EXCEPT !.ustate = "ok"]
        BY <3>1, <3>3 DEF Copies, Environment
      <4> QED
        BY <2>3, <3>3, <4>1 DEF BootKept
    <3> QED
      BY <2>2, <3>2, <3>3
  <2> QED
    BY <2>6, <2>7, <2>8, <2>9, <2>11, <2>12, <2>13, <2>14, <2>15 DEF IInv
<1> QED
  BY <1>8, <1>9

(* The daemon comes up with nothing in memory.                             *)
LEMMA RestartStep == ASSUME IInv, restart PROVE IInv'
<1>1. /\ boots < MaxBoots /\ boots' = boots + 1
      /\ lib' = [open |-> FALSE, mem |-> disk, cur |-> running, inflight |-> FALSE]
      /\ pc' = "idle" /\ todo' = {} /\ last' = (IF pc = "idle" THEN last ELSE "none")
      /\ seen' = "none"
      /\ UNCHANGED <<disk, running, booted, commits, upd, failed, acked, fresh, faults>>
  BY DEF restart, Forget
<1>2. lib' \in Lib /\ ~lib'.open /\ ~lib'.inflight
  BY <1>1, Types, Zenon DEF IInv, TypeOK, Lib
<1>3. boots' \in 0..MaxBoots
  BY <1>1, EbgAssumption DEF IInv, TypeOK
<1>4. TypeOK'
  BY <1>1, <1>2, <1>3 DEF IInv, TypeOK, Lib
<1>5. LibInv(lib, disk)' /\ ApplyInv'
  BY <1>1, <1>2, Zenon DEF LibInv, ApplyInv
<1>6. DiskInv' /\ KeptInv' /\ AckHolds' /\ CommitInv' /\ FreshInv'
  BY <1>1, <1>2, Zenon DEF IInv, DiskInv, KeptInv, AckHolds, CommitInv, FreshInv
<1>7. UncommittedOffDisk' /\ SuccessIsNext'
  BY <1>1, Zenon DEF IInv, UncommittedOffDisk, SuccessIsNext
<1> QED
  BY <1>4, <1>5, <1>6, <1>7 DEF IInv

(* The boot loader changes the state of the boot path, and its revision.   *)
LEMMA TriedFacts ==
  ASSUME disk \in [Env -> Environment], DiskInv
  PROVE  /\ Tried(disk) \in [Env -> Environment]
         /\ \A e \in Env : /\ Tried(disk)[e].in_progress = 0
                           /\ Tried(disk)[e].vars = disk[e].vars
<1> DEFINE p == BootPath(disk)
           c == disk[p]
           x == [c EXCEPT !.ustate = "testing"]
           y == [c EXCEPT !.ustate = "failed"]
           z == [y EXCEPT !.revision = 0]
<1>1. p \in Env
  <2>1. \A e \in Env : disk[e].revision \in Nat
    BY DEF Environment
  <2> QED
    BY <2>1, BootPathIs, NewestIs DEF DiskInv
<1>2. c \in Environment /\ c.in_progress = 0
  BY <1>1 DEF DiskInv
<1> HIDE DEF c
<1>3. x \in Environment /\ x.in_progress = 0 /\ x.vars = c.vars
  BY <1>2 DEF Environment, State
<1>4. y \in Environment /\ y.in_progress = 0 /\ y.vars = c.vars
  BY <1>2 DEF Environment, State
<1> HIDE DEF y
<1>5. z \in Environment /\ z.in_progress = 0 /\ z.vars = c.vars
  BY <1>4 DEF Environment
<1> HIDE DEF x, z
<1>6. ASSUME NEW w \in Environment, w.in_progress = 0, w.vars = c.vars,
             Tried(disk) = [disk EXCEPT ![p] = w]
      PROVE  /\ Tried(disk) \in [Env -> Environment]
             /\ \A e \in Env : /\ Tried(disk)[e].in_progress = 0
                               /\ Tried(disk)[e].vars = disk[e].vars
  <2> HIDE DEF p
  <2>1. /\ Tried(disk) \in [Env -> Environment] /\ Tried(disk)[p] = w
        /\ \A e \in Env \ {p} : Tried(disk)[e] = disk[e]
    BY <1>1, <1>6
  <2> QED
    BY <1>6, <2>1 DEF c, DiskInv
<1>7. CASE c.ustate = "installed"
  <2>1. Tried(disk) = [disk EXCEPT ![p] = x]
    BY <1>7 DEF Tried, c, x
  <2> QED
    BY <1>3, <1>6, <2>1, Zenon
<1>8. CASE c.ustate = "testing"
  <2>1. Tried(disk) = [disk EXCEPT ![p].ustate = "failed", ![p].revision = 0]
    BY <1>8 DEF Tried, c
  <2>2. [disk EXCEPT ![p].ustate = "failed", ![p].revision = 0] = [disk EXCEPT ![p] = z]
    <3> HIDE DEF p
    <3> QED
      BY <1>1, Zenon DEF c, y, z
  <2> QED
    BY <1>5, <1>6, <2>1, <2>2, Zenon
<1>9. CASE c.ustate \notin {"installed", "testing"}
  <2>1. Tried(disk) = disk
    BY <1>9 DEF Tried, c
  <2> QED
    BY <2>1 DEF DiskInv
<1> QED
  BY <1>7, <1>8, <1>9

(* The device runs the newest environment there is after a reboot.         *)
LEMMA RebootStep == ASSUME IInv, reboot PROVE IInv'
<1>1. /\ boots < MaxBoots /\ boots' = boots + 1
      /\ disk' = Tried(disk) /\ running' = BootPath(disk')
      /\ booted' = disk'[running'] /\ commits' = 0
      /\ lib' = [open |-> FALSE, mem |-> disk', cur |-> running', inflight |-> FALSE]
      /\ pc' = "idle" /\ todo' = {} /\ last' = (IF pc = "idle" THEN last ELSE "none")
      /\ seen' = "none" /\ acked' = FALSE /\ fresh' = TRUE
      /\ UNCHANGED <<upd, failed, faults>>
  BY DEF reboot, Forget
<1>2. /\ disk' \in [Env -> Environment]
      /\ \A e \in Env : disk'[e].in_progress = 0 /\ disk'[e].vars = disk[e].vars
  BY <1>1, Types, TriedFacts
<1>3. \A e \in Env : disk'[e].revision \in Nat
  BY <1>2 DEF Environment
<1>4. running' = Newest(disk', Env) /\ running' \in Env
  BY <1>1, <1>2, <1>3, BootPathIs, NewestIs, Zenon
<1>5. booted' \in Environment /\ lib' \in Lib /\ ~lib'.open /\ ~lib'.inflight
  BY <1>1, <1>2, <1>4 DEF Lib
<1>6. boots' \in 0..MaxBoots /\ commits' \in 0..MaxUpdates
  BY <1>1, EbgAssumption DEF IInv, TypeOK
<1>7. TypeOK'
  BY <1>1, <1>2, <1>4, <1>5, <1>6, Zenon DEF IInv, TypeOK, Lib
<1>8. LibInv(lib, disk)' /\ ApplyInv' /\ AckHolds' /\ FreshInv' /\ SuccessIsNext'
  BY <1>1, <1>4, <1>5, Zenon DEF LibInv, ApplyInv, AckHolds, FreshInv, SuccessIsNext
<1>9. DiskInv' /\ UncommittedOffDisk'
  BY <1>1, <1>2, Zenon DEF IInv, DiskInv, UncommittedOffDisk
<1>10. CommitInv'
  <2>1. upd'.no = upd.no /\ upd.no \in Nat
    BY <1>1, Types, Zenon
  <2>2. commits' <= upd'.no
    BY <1>1, <2>1
  <2> QED
    BY <1>1, <1>5, <2>2, Zenon DEF CommitInv
<1>11. KeptInv'
  <2>1. NewerThan(disk', running') = {}
    <3>1. \A f \in Env : f \in Nat
      BY EbgAssumption DEF Env
    <3>2. \A f \in Env : AsNew(disk', running', f)
      BY <1>3, <1>4, NewestIs
    <3>3. \A f \in Env : f # running' => ~AsNew(disk', f, running')
      BY <1>3, <1>4, <3>1, <3>2 DEF AsNew
    <3> QED
      BY <3>3 DEF NewerThan
  <2>2. Cardinality(NewerThan(disk', running')) = 0
    BY <2>1, FS_EmptySet
  <2>3. Cardinality(NewerThan(disk', running')) <= commits'
    BY <1>1, <2>2
  <2>4. Copies(disk'[running'], booted')
    BY <1>1, Zenon DEF Copies
  <2>5. disk'[running'].in_progress = 0
    BY <1>2, <1>4, Zenon
  <2> QED
    BY <2>3, <2>4, <2>5, Zenon DEF KeptInv
<1> QED
  BY <1>7, <1>8, <1>9, <1>10, <1>11, Zenon DEF IInv

(* Every step keeps the invariant and, but for a boot, the boot path.      *)
LEMMA EbgNext == ASSUME IInv, [Next]_vars PROVE IInv' /\ (boots' # boots \/ BootKept)
<1>1. CASE \/ network_initializer \/ begin \/ begin2 \/ extract_fails \/ install_fails
           \/ do_apply_list \/ installed \/ fail \/ fail2 \/ unset_marker \/ get_state
  <2>1. IInv' /\ disk' = disk
    BY <1>1, NewStep, BeginStep, FailureStep, InstallStep, ApplyStep, FailStep, UnsetStep,
       GetStep, Zenon
  <2> QED
    BY <2>1 DEF BootKept
<1>2. CASE commit2 \/ activate \/ set_state_ok
  BY <1>2, Commit2Step, ActivateStep, AckStep, Zenon
<1>3. CASE restart \/ reboot
  <2>1. boots' # boots
    BY <1>3 DEF IInv, TypeOK, restart, reboot
  <2> QED
    BY <1>3, <2>1, RestartStep, RebootStep, Zenon
<1>4. CASE UNCHANGED vars
  <2> USE <1>4 DEF vars
  <2>1. TypeOK'
    <3> USE DEF IInv, TypeOK
    <3>1. /\ disk' \in [Env -> Environment]
          /\ lib' \in [open: BOOLEAN, mem: [Env -> Environment], cur: Env, inflight: BOOLEAN]
          /\ running' \in Env /\ booted' \in Environment
      BY Zenon
    <3>2. /\ commits' \in 0..MaxUpdates
          /\ pc' \in {"idle", "begin", "begin2", "bootenv", "fail", "fail2", "commit", "commit2"}
          /\ upd' \in [no: 0..MaxUpdates, vars: SUBSET Var, transaction: BOOLEAN, state: BOOLEAN]
      BY Zenon
    <3>3. /\ todo' \subseteq upd'.vars /\ last' \in {"none", "success", "failure"}
          /\ failed' \subseteq 1..MaxUpdates /\ seen' \in State \cup {"none"}
      BY Zenon
    <3>4. /\ acked' \in BOOLEAN /\ fresh' \in BOOLEAN
          /\ boots' \in 0..MaxBoots /\ faults' \in 0..MaxFaults
      BY Zenon
    <3> QED
      BY <3>1, <3>2, <3>3, <3>4, Zenon
  <2>2. LibInv(lib, disk)'
    BY Zenon DEF IInv, LibInv, Current
  <2>3. DiskInv'
    BY Zenon DEF IInv, DiskInv
  <2>4. ApplyInv'
    BY Zenon DEF IInv, ApplyInv, Current
  <2>5. CommitInv'
    BY Zenon DEF IInv, CommitInv, Current
  <2>6. KeptInv'
    BY Zenon DEF IInv, KeptInv
  <2>7. AckHolds'
    BY Zenon DEF IInv, AckHolds
  <2>8. FreshInv'
    BY Zenon DEF IInv, FreshInv, Current
  <2>9. UncommittedOffDisk'
    BY Zenon DEF IInv, UncommittedOffDisk, Current
  <2>10. SuccessIsNext'
    BY Zenon DEF IInv, SuccessIsNext
  <2>11. BootKept
    BY Zenon DEF BootKept
  <2> QED
    BY <2>1, <2>2, <2>3, <2>4, <2>5, <2>6, <2>7, <2>8, <2>9, <2>10, <2>11, Zenon DEF IInv
<1> QED
  BY <1>1, <1>2, <1>3, <1>4, Zenon DEF Next

LEMMA EbgInvariance == Spec => []IInv
<1>1. IInv /\ [Next]_vars => IInv'
  BY EbgNext
<1> QED
  BY EbgInit, <1>1, PTL DEF Spec

(* Whatever calls of libebgenv fail and whenever the daemon restarts or    *)
(* the device reboots, an update with the state marker that was reported   *)
(* as a success (commit in do_env_set) is the boot path, with all the      *)
(* variables that do_apply_list set.                                       *)
THEOREM SuccessCorrect == Spec => []SuccessIsNext
<1>1. IInv => SuccessIsNext
  BY DEF IInv
<1> QED
  BY EbgInvariance, <1>1, PTL

(* For every number of environments: no variable of an update is on the    *)
(* disk before its commit, and what was booted stays there until as many   *)
(* updates were committed as there are environments, since                 *)
(* env_create_new takes the oldest one.                                    *)
THEOREM RollbackCorrect == Spec => []RollbackKept
<1>1. IInv => RollbackKept
  BY DEF IInv, RollbackKept, KeptInv, RunningKept, Copies
<1> QED
  BY EbgInvariance, <1>1, PTL

(* An acknowledgement that do_env_set answers with success before an       *)
(* update is begun is on the disk, and nothing else that it does changes   *)
(* the boot path.                                                          *)
THEOREM AckCorrect == Spec => AckKept
<1> DEFINE B == LET p == BootPath(disk)
                IN  disk'[p] \in {disk[p],
                                  [disk[p] EXCEPT !.ustate = IF @ = "testing" THEN "ok" ELSE @]}
<1>1. IInv => AckHolds
  BY DEF IInv
<1>2. IInv /\ [Next]_vars => [boots' # boots \/ B]_vars
  <2> SUFFICES ASSUME IInv, [Next]_vars PROVE boots' # boots \/ B
    OBVIOUS
  <2>1. BootPath(disk) = Newest(disk, Env)
    BY BootPathIs DEF IInv, DiskInv
  <2> QED
    BY <2>1, EbgNext DEF BootKept
<1> QED
  BY EbgInvariance, <1>1, <1>2, PTL DEF Spec, AckKept, OnlyBlessed
=============================================================================
