--------------------------- MODULE Switch_proofs ----------------------------
(***************************************************************************)
(* A switch to the new software is atomic, however often the power is cut: *)
(* the one of the administration sectors in handlers/ssbl_handler.c, and the *)
(* one of the GRUB environment block in bootloader/grub.c, whatever the    *)
(* number of threads that write it and the room on the device.             *)
(***************************************************************************)
EXTENDS SsblSwitch, GrubEnv, FiniteSetTheorems, TLAPS

(* The administration sectors of handlers/ssbl_handler.c                   *)

(* What is between two writes: the copy that was active keeps its valid    *)
(* sector, the other one is valid again only when it is one age newer.     *)
SwitchInv ==
  /\ STypeOK
  /\ sector[was].magic /\ sector[was].whole
  /\ spc \in {"idle", "erase"} => get_active_ssbl(sector) = was
  /\ spc # "idle" =>
       /\ target = 1 - was
       /\ admins[was] = sector[was] /\ get_active_ssbl(admins) = was
  /\ spc \in {"admin", "magic"} => ~sector[target].magic
  /\ spc \in {"magic", "done"} =>
       /\ sector[target].whole
       /\ sector[target].age = (get_ssbl_age(sector[was]) + 1) % 3
  /\ spc = "done" => sector[target].magic

(* The arithmetic of ages modulo 3 in get_ssbl_age and write_admin.        *)
LEMMA AgeArith ==
  /\ \A n \in 0..7 : n % 3 \in 0..2
  /\ \A n \in 0..2 : n % 3 = n
  /\ \A n \in 0..2 : (n + 1) % 3 = IF n = 2 THEN 0 ELSE n + 1
BY SMT

(* get_active_ssbl names a copy with a valid sector if there is one.       *)
LEMMA ActiveIsCopy ==
  ASSUME NEW s \in [Copy -> Sector]
  PROVE  /\ get_active_ssbl(s) \in Copy /\ get_inactive_ssbl(s) \in Copy
         /\ get_inactive_ssbl(s) = 1 - get_active_ssbl(s)
         /\ (\E i \in Copy : s[i].magic) => s[get_active_ssbl(s)].magic
BY DEF get_active_ssbl, get_inactive_ssbl, Copy

(* A copy is active when only its sector has the magic number.             *)
LEMMA OnlyValidIsActive ==
  ASSUME NEW s \in [Copy -> Sector], NEW c \in Copy,
         s[c].magic, ~s[1 - c].magic
  PROVE  get_active_ssbl(s) = c
BY DEF get_active_ssbl, get_inactive_ssbl, Copy

(* With two valid sectors the one that is one age newer is active, the     *)
(* wrap from 2 to 0 included.                                              *)
LEMMA NewerIsActive ==
  ASSUME NEW s \in [Copy -> Sector], NEW c \in Copy,
         s[0].magic, s[1].magic,
         s[c].age = (get_ssbl_age(s[1 - c]) + 1) % 3
  PROVE  get_active_ssbl(s) = c
<1> DEFINE old == get_ssbl_age(s[1 - c])
<1>1. s[1 - c].age \in 0..7
  BY DEF Copy, Sector
<1>2. old \in 0..2
  BY <1>1, AgeArith DEF get_ssbl_age
<1> HIDE DEF old
<1>3. s[c].age = IF old = 2 THEN 0 ELSE old + 1
  BY <1>2, AgeArith DEF old
<1>4. get_ssbl_age(s[c]) = IF old = 2 THEN 0 ELSE old + 1
  BY <1>2, <1>3, AgeArith DEF get_ssbl_age
<1>5. CASE c = 0
  BY <1>2, <1>4, <1>5 DEF get_active_ssbl, get_inactive_ssbl, old
<1>6. CASE c = 1
  BY <1>2, <1>4, <1>6 DEF get_active_ssbl, get_inactive_ssbl, old
<1> QED
  BY <1>5, <1>6 DEF Copy

(* Before the first switch the active copy is valid.                       *)
LEMMA SwitchInvInit == SInit => SwitchInv
<1> SUFFICES ASSUME SInit PROVE SwitchInv
  OBVIOUS
<1>1. sector \in [Copy -> Sector]
  BY DEF SInit
<1>2. \A i \in Copy : sector[i].magic => sector[i].whole
  BY DEF SInit, Erased
<1> QED
  BY <1>1, <1>2, ActiveIsCopy DEF SInit, SwitchInv, STypeOK, Copy

(* Every write, and every cut, keeps the invariant.                        *)
LEMMA SwitchInvNext == SwitchInv /\ [SNext]_svars => SwitchInv'
<1> SUFFICES ASSUME SwitchInv, [SNext]_svars PROVE SwitchInv'
  OBVIOUS
<1> USE DEF SwitchInv
<1>0. STypeOK /\ was \in Copy /\ target \in Copy
  BY DEF STypeOK
<1>1. CASE ssbl_swap
  <2>1. sector[get_active_ssbl(sector)].magic /\ sector[get_active_ssbl(sector)].whole
    BY <1>0, <1>1, NewerIsActive, ActiveIsCopy DEF ssbl_swap, STypeOK, Copy
  <2> QED
    BY <1>0, <1>1, <2>1, ActiveIsCopy DEF ssbl_swap, STypeOK, Copy
<1>2. CASE flash_erase
  <2>1. Erased \in Sector
    BY DEF Erased, Sector
  <2> QED
    BY <1>0, <1>2, <2>1 DEF flash_erase, STypeOK, Copy, Erased
<1>3. CASE write_admin
  <2> DEFINE age == (get_ssbl_age(admins[get_active_ssbl(admins)]) + 1) % 3
             written == [magic |-> FALSE, whole |-> TRUE, age |-> age]
  <2>1. get_ssbl_age(sector[was]) \in 0..2
    BY <1>0, AgeArith DEF STypeOK, Sector, get_ssbl_age
  <2>2. age = (get_ssbl_age(sector[was]) + 1) % 3
    BY <1>3 DEF write_admin
  <2>3. age \in 0..7
    BY <2>1, <2>2, AgeArith
  <2> HIDE DEF age
  <2>4. written \in Sector
    BY <2>3 DEF Sector
  <2>5. sector' = [sector EXCEPT ![target] = written]
    BY <1>3 DEF write_admin, age
  <2>6. written.age = age /\ ~written.magic /\ written.whole
    OBVIOUS
  <2> HIDE DEF written
  <2>7. target = 1 - was /\ spc = "admin"
    BY <1>3 DEF write_admin
  <2>8. sector'[target] = written /\ sector'[was] = sector[was] /\ STypeOK'
    BY <1>0, <1>3, <2>4, <2>5, <2>7 DEF write_admin, STypeOK, Copy
  <2> QED
    BY <1>0, <1>3, <2>2, <2>6, <2>7, <2>8 DEF write_admin
<1>4. CASE write_magic
  BY <1>0, <1>4, Zenon DEF write_magic, STypeOK, Copy, Sector
<1>5. CASE cut
  <2>1. CASE UNCHANGED sector
    <3>1. CASE spc = "erase"
      BY <1>0, <1>5, <2>1, <3>1 DEF cut, STypeOK
    <3>2. CASE spc \in {"admin", "magic"}
      <4>1. get_active_ssbl(sector) = was
        BY <1>0, <3>2, OnlyValidIsActive DEF STypeOK
      <4> QED
        BY <1>0, <1>5, <2>1, <4>1 DEF cut, STypeOK
    <3> QED
      BY <1>0, <1>5, <3>1, <3>2 DEF cut, STypeOK
  <2>2. ASSUME NEW s \in Sector, ~s.magic, spc \in {"erase", "admin"},
               sector' = [sector EXCEPT ![target] = s]
        PROVE  SwitchInv'
    <3>1. STypeOK' /\ sector'[was] = sector[was] /\ ~sector'[1 - was].magic
      BY <1>0, <1>5, <2>2 DEF cut, STypeOK, Copy
    <3>2. get_active_ssbl(sector') = was
      BY <1>0, <3>1, OnlyValidIsActive DEF STypeOK
    <3> QED
      BY <1>5, <3>1, <3>2 DEF cut
  <2>3. CASE spc = "erase" /\ ~UNCHANGED sector
    <3> DEFINE half == [sector[target] EXCEPT !.magic = FALSE, !.whole = FALSE]
    <3>1. PICK s \in {half, Erased} : sector' = [sector EXCEPT ![target] = s]
      BY <1>5, <2>3 DEF cut
    <3>2. half \in Sector /\ ~half.magic
      BY <1>0, Zenon DEF STypeOK, Sector
    <3>3. Erased \in Sector /\ ~Erased.magic
      BY DEF Erased, Sector
    <3> HIDE DEF half
    <3> QED
      BY <2>2, <2>3, <3>1, <3>2, <3>3, Zenon
  <2>4. CASE spc = "admin" /\ ~UNCHANGED sector
    <3>1. PICK a \in 0..7 : sector' = [sector EXCEPT ![target].age = a]
      BY <1>5, <2>4 DEF cut
    <3>2. [sector[target] EXCEPT !.age = a] \in Sector
          /\ ~[sector[target] EXCEPT !.age = a].magic
      BY <1>0, <2>4 DEF STypeOK, Sector
    <3> QED
      BY <1>0, <2>2, <2>4, <3>1, <3>2, Zenon DEF STypeOK
  <2> QED
    BY <1>5, <2>1, <2>3, <2>4 DEF cut
<1>6. CASE UNCHANGED svars
  BY <1>6 DEF svars, STypeOK, get_active_ssbl, get_inactive_ssbl, get_ssbl_age
<1> QED
  BY <1>1, <1>2, <1>3, <1>4, <1>5, <1>6 DEF SNext

(* The invariant is what the runs check.                                   *)
LEMMA SwitchInvAtomic == SwitchInv => SwitchAtomic
<1> SUFFICES ASSUME SwitchInv PROVE SwitchAtomic
  OBVIOUS
<1> USE DEF SwitchInv
<1>0. STypeOK /\ was \in Copy
  BY DEF STypeOK
<1>1. CASE spc \in {"idle", "erase"}
  BY <1>0, <1>1 DEF SwitchAtomic, ActiveValid, OldUntilDone, Switched
<1>2. CASE spc \in {"admin", "magic"}
  <2>1. get_active_ssbl(sector) = was
    BY <1>0, <1>2, OnlyValidIsActive DEF STypeOK
  <2> QED
    BY <1>0, <1>2, <2>1 DEF SwitchAtomic, ActiveValid, OldUntilDone, Switched
<1>3. CASE spc = "done"
  <2>1. get_active_ssbl(sector) = target
    BY <1>0, <1>3, NewerIsActive DEF STypeOK, Copy
  <2> QED
    BY <1>0, <1>3, <2>1 DEF SwitchAtomic, ActiveValid, OldUntilDone, Switched
<1> QED
  BY <1>0, <1>1, <1>2, <1>3 DEF STypeOK

(* Whatever the sectors were, however often ssbl_swap runs and wherever it *)
(* is cut: there is a valid copy, the old one until the magic number of    *)
(* the new one is written.                                                 *)
THEOREM SwitchCorrect == SSpec => []SwitchAtomic
<1>1. SwitchInv => SwitchAtomic
  BY SwitchInvAtomic
<1> QED
  BY <1>1, SwitchInvInit, SwitchInvNext, PTL DEF SSpec

-----------------------------------------------------------------------------
(* The environment block of bootloader/grub.c                              *)

(* A block is not the empty file.                                          *)
LEMMA BlockIsNotEmpty == ASSUME NEW b \in Block PROVE b # Empty
<1>1. DOMAIN b = GVar
  BY DEF Block
<1>2. DOMAIN Empty = {}
  BY DEF Empty
<1> QED
  BY <1>1, <1>2, GrubAssumption

(* 0 is the number of no file, and 1 the first one that has the name.      *)
LEMMA FirstFiles == {0, 1} \subseteq File
<1>1. Cardinality(Thread) \in Nat
  BY GrubAssumption, FS_CardinalityType
<1> QED
  BY <1>1 DEF File

Streams == {"rename", "fclose", "error"}

(* A thread has a file open from grubenv_write to fclose; the file that    *)
(* the next rename moves is open; no file has both names.                  *)
Files ==
  /\ new # grubenv
  /\ \A t \in Thread : (fd[t] # 0) <=> gpc[t] \in Streams
  /\ new = 0 \/ (\A t \in Thread : gpc[t] # "rename")
       \/ \E t \in Thread : gpc[t] = "rename" /\ fd[t] = new

(* What the thread t makes of the block that the callers were told of.     *)
Changed(t) ==
  [v \in GVar |-> IF v \in change[t].names THEN change[t].value ELSE told[v]]

(* A call that is alone replaces the block by the changed one.             *)
Single ==
  alone =>
    /\ \A t, u \in Thread : gpc[t] # "idle" /\ gpc[u] # "idle" => t = u
    /\ (\A t \in Thread : gpc[t] # "fclose") => content[grubenv] = told
    /\ \A t \in Thread :
         /\ gpc[t] # "error"
         /\ gpc[t] # "idle" => vars_[t] = Changed(t)
         /\ gpc[t] = "rename" => new # 0 /\ fd[t] = new
         /\ gpc[t] = "fclose" => fd[t] = grubenv

GInv == GTypeOK /\ Files /\ Single /\ GrubWhole

LEMMA GInvInit == GInit => GInv
<1> SUFFICES ASSUME GInit PROVE GInv
  OBVIOUS
<1> DEFINE b == [v \in GVar |-> 0]
<1>1. /\ grubenv = 1 /\ new = 0 /\ content = [f \in File |-> IF f = 1 THEN b ELSE Empty]
      /\ gpc = [t \in Thread |-> "idle"] /\ vars_ = [t \in Thread |-> b]
      /\ fd = [t \in Thread |-> 0] /\ calls = 0 /\ told = b /\ alone = TRUE /\ torn = FALSE
      /\ change = [t \in Thread |-> [fn |-> "do_env_set", names |-> {}, value |-> 0]]
  BY DEF GInit
<1>2. b \in Block /\ 0 \in 0..MaxCalls
  BY GrubAssumption DEF Block
<1>4. 1 \in File \ {0} /\ 0 \in File
  BY FirstFiles
<1>5. change \in [Thread -> Change]
  BY <1>1, <1>2 DEF Change, Function
<1>6. GTypeOK
  BY <1>1, <1>2, <1>4, <1>5, Zenon DEF GTypeOK
<1>7. content[grubenv] = b
  BY <1>1, <1>4
<1>8. Files
  BY <1>1 DEF Files, Streams
<1>9. Single
  <2> HIDE DEF b
  <2> QED
    BY <1>1, <1>7 DEF Single
<1>10. GrubWhole
  BY <1>2, <1>7, BlockIsNotEmpty DEF GrubWhole
<1> QED
  BY <1>6, <1>8, <1>9, <1>10 DEF GInv

(* There are enough files: one is neither linked nor open.                 *)
LEMMA FreshExists ==
  ASSUME GTypeOK, Files, NEW t \in Thread, gpc[t] = "write"
  PROVE  /\ Fresh \in File \ {0, grubenv, new}
         /\ \A u \in Thread : fd[u] # Fresh
<1> DEFINE F == File \ {0, grubenv, new}
           T == Thread \ {t}
           g == [f \in F |-> CHOOSE u \in T : fd[u] = f]
<1>1. Cardinality(Thread) \in Nat /\ IsFiniteSet(Thread)
  BY GrubAssumption, FS_CardinalityType
<1>2. IsFiniteSet(T) /\ Cardinality(T) = Cardinality(Thread) - 1
  BY <1>1, FS_RemoveElement
<1>3. IsFiniteSet(File) /\ Cardinality(File) = Cardinality(Thread) + 3
  <2>1. Cardinality(Thread) + 2 \in Int /\ 0 \in Int
    BY <1>1
  <2> QED
    BY <1>1, <2>1, FS_Interval DEF File
<1>4. IsFiniteSet(F) /\ Cardinality(F) >= Cardinality(Thread)
  <2>1. ASSUME NEW S, IsFiniteSet(S), NEW x
        PROVE  /\ IsFiniteSet(S \ {x}) /\ Cardinality(S) \in Nat
               /\ Cardinality(S \ {x}) \in Nat /\ Cardinality(S \ {x}) >= Cardinality(S) - 1
    <3>1. Cardinality(S) \in Nat /\ IsFiniteSet(S \ {x})
      BY <2>1, FS_CardinalityType, FS_RemoveElement, Zenon
    <3>2. Cardinality(S \ {x}) \in Nat
      BY <3>1, FS_CardinalityType, Zenon
    <3>3. Cardinality(S \ {x}) = IF x \in S THEN Cardinality(S) - 1 ELSE Cardinality(S)
      BY <2>1, FS_RemoveElement, Zenon
    <3> QED
      BY <3>1, <3>2, <3>3
  <2> DEFINE A == File \ {0}
             B == A \ {grubenv}
  <2>2. IsFiniteSet(A) /\ Cardinality(A) >= Cardinality(File) - 1 /\ Cardinality(A) \in Nat
    BY <1>3, <2>1, Zenon
  <2> HIDE DEF A
  <2>3. IsFiniteSet(B) /\ Cardinality(B) >= Cardinality(A) - 1 /\ Cardinality(B) \in Nat
    BY <2>1, <2>2, Zenon
  <2> HIDE DEF B
  <2>4. IsFiniteSet(B \ {new}) /\ Cardinality(B \ {new}) >= Cardinality(B) - 1
        /\ Cardinality(B \ {new}) \in Nat
    BY <2>1, <2>3, Zenon
  <2>5. F = B \ {new}
    BY DEF A, B
  <2> HIDE DEF F
  <2> QED
    BY <1>1, <1>3, <2>2, <2>3, <2>4, <2>5
<1>5. \E f \in F : \A u \in Thread : fd[u] # f
  <2> SUFFICES ASSUME \A f \in F : \E u \in Thread : fd[u] = f PROVE FALSE
    OBVIOUS
  <2>1. fd[t] = 0
    BY DEF Files, Streams
  <2>2. \A f \in F : \E u \in T : fd[u] = f
    BY <2>1
  <2>3. \A f \in F : g[f] \in T /\ fd[g[f]] = f
    BY <2>2
  <2>4. g \in [F -> T]
    BY <2>3
  <2>5. Cardinality(T) < Cardinality(F)
    BY <1>1, <1>2, <1>4, FS_CardinalityType
  <2>6. \E x, y \in F : x # y /\ g[x] = g[y]
    <3> HIDE DEF F, T, g
    <3> QED
      BY <1>2, <1>4, <2>4, <2>5, FS_PigeonHole
  <2> QED
    BY <2>3, <2>6
<1> QED
  BY <1>5 DEF Fresh

(* A call reads the block; alone, it finds what the callers were told.     *)
LEMMA OpenStep ==
  ASSUME GInv, NEW t \in Thread, NEW fn \in Function, grubenv_open(t, fn)
  PROVE  GInv'
<1>1. PICK V \in SUBSET GVar \ {{}} :
        LET value == IF fn = "do_env_unset" THEN 0 ELSE calls + 1
        IN  /\ change' = [change EXCEPT ![t] = [fn |-> fn, names |-> V, value |-> value]]
            /\ IF content[grubenv] = Empty THEN UNCHANGED <<gpc, vars_>>
               ELSE /\ vars_' = [vars_ EXCEPT ![t] =
                         [v \in GVar |-> IF v \in V THEN value ELSE content[grubenv][v]]]
                    /\ Goto(t, "write")
  BY Zenon DEF grubenv_open
<1> DEFINE value == IF fn = "do_env_unset" THEN 0 ELSE calls + 1
           c == [fn |-> fn, names |-> V, value |-> value]
           b == [v \in GVar |-> IF v \in V THEN value ELSE content[grubenv][v]]
<1>2. /\ gpc[t] = "idle" /\ calls < MaxCalls /\ calls' = calls + 1
      /\ alone' = (alone /\ \A u \in Thread : gpc[u] = "idle")
      /\ UNCHANGED <<grubenv, new, content, fd, told, torn>>
  BY DEF grubenv_open
<1>3. GTypeOK /\ Files /\ Single /\ GrubWhole
  BY DEF GInv
<1>4. value \in 0..MaxCalls /\ calls' \in 0..MaxCalls
  BY <1>2, <1>3, GrubAssumption DEF GTypeOK
<1>5. c \in Change /\ c.names = V /\ c.value = value
  BY <1>4 DEF Change
<1>6. alone' \in BOOLEAN
  BY <1>2, <1>3, Zenon DEF GTypeOK
<1>7. GrubWhole'
  BY <1>2, <1>3 DEF GrubWhole
<1>8. change' = [change EXCEPT ![t] = c]
  BY <1>1
<1>9. CASE content[grubenv] = Empty
  <2>1. UNCHANGED <<gpc, vars_>>
    BY <1>1, <1>9
  <2>2. GTypeOK' /\ Files'
    BY <1>2, <1>3, <1>4, <1>5, <1>6, <1>8, <2>1 DEF GTypeOK, Files
  <2>3. Single'
    <3>1. content[grubenv] = told \/ ~alone'
      BY <1>2, <1>3, Zenon DEF Single
    <3>2. told # Empty
      BY <1>3, BlockIsNotEmpty DEF GTypeOK
    <3> QED
      BY <1>9, <3>1, <3>2 DEF Single
  <2> QED
    BY <1>7, <2>2, <2>3 DEF GInv
<1>10. CASE content[grubenv] # Empty
  <2>1. vars_' = [vars_ EXCEPT ![t] = b] /\ gpc' = [gpc EXCEPT ![t] = "write"]
    BY <1>1, <1>10 DEF Goto
  <2>2. content[grubenv] \in Block
    BY <1>3, <1>10 DEF GTypeOK
  <2>3. b \in Block
    BY <1>4, <2>2 DEF Block
  <2>4. GTypeOK'
    <3> HIDE DEF b, c
    <3> QED
      BY <1>2, <1>3, <1>4, <1>5, <1>6, <1>8, <2>1, <2>3 DEF GTypeOK
  <2>5. \A u \in Thread : gpc'[u] = IF u = t THEN "write" ELSE gpc[u]
    BY <1>3, <2>1 DEF GTypeOK
  <2>6. Files'
    BY <1>2, <1>3, <2>5 DEF Files, Streams
  <2>7. Single'
    <3> SUFFICES ASSUME alone' PROVE Single'
      BY DEF Single
    <3>1. alone /\ \A u \in Thread : gpc[u] = "idle"
      BY <1>2, Zenon
    <3>2. content[grubenv] = told
      BY <1>3, <3>1 DEF Single
    <3>3. vars_'[t] = b /\ change'[t] = c
      BY <1>3, <1>8, <2>1 DEF GTypeOK
    <3>4. vars_'[t] = Changed(t)'
      BY <1>2, <1>5, <3>2, <3>3 DEF Changed
    <3> QED
      BY <1>2, <2>5, <3>1, <3>2, <3>4 DEF Single
  <2> QED
    BY <1>7, <2>4, <2>6, <2>7 DEF GInv
<1> QED
  BY <1>9, <1>10

(* The temporary file is made, or the one that is there emptied.           *)
LEMMA WriteStep ==
  ASSUME GInv, NEW t \in Thread, grubenv_write(t)
  PROVE  GInv'
<1>1. GTypeOK /\ Files /\ Single /\ GrubWhole /\ gpc[t] = "write"
      /\ UNCHANGED <<grubenv, vars_, change, calls, told, alone, torn>>
  BY DEF GInv, grubenv_write
<1>2. CASE ~Fits(vars_[t])
  <2>1. gpc' = [gpc EXCEPT ![t] = "idle"] /\ UNCHANGED <<new, content, fd>>
    BY <1>2 DEF grubenv_write, Goto
  <2>2. \A u \in Thread : gpc'[u] = IF u = t THEN "idle" ELSE gpc[u]
    BY <1>1, <2>1 DEF GTypeOK
  <2>3. GTypeOK'
    BY <1>1, <2>1 DEF GTypeOK
  <2>4. Files' /\ GrubWhole'
    BY <1>1, <2>1, <2>2 DEF Files, Streams, GrubWhole
  <2>5. Single'
    BY <1>1, <2>1, <2>2 DEF Single, Changed
  <2> QED
    BY <2>3, <2>4, <2>5 DEF GInv
<1>3. CASE Fits(vars_[t])
  <2>1. /\ new' = IF new # 0 THEN new ELSE Fresh
        /\ content' = [content EXCEPT ![new'] = Empty]
        /\ fd' = [fd EXCEPT ![t] = new'] /\ gpc' = [gpc EXCEPT ![t] = "rename"]
    BY <1>3 DEF grubenv_write, Goto
  <2>2. new' \in File \ {0, grubenv}
    BY <1>1, <2>1, FreshExists DEF GTypeOK, Files
  <2>3. /\ \A u \in Thread : gpc'[u] = IF u = t THEN "rename" ELSE gpc[u]
        /\ \A u \in Thread : fd'[u] = IF u = t THEN new' ELSE fd[u]
        /\ content'[grubenv] = content[grubenv]
    BY <1>1, <2>1, <2>2 DEF GTypeOK
  <2>4. GTypeOK'
    BY <1>1, <2>1, <2>2 DEF GTypeOK
  <2>5. Files'
    BY <1>1, <2>2, <2>3 DEF Files, Streams
  <2>6. fd[t] # grubenv
    BY <1>1 DEF GTypeOK, Files, Streams
  <2>7. GrubWhole'
    BY <1>1, <2>3, <2>6 DEF GrubWhole
  <2>8. Single'
    BY <1>1, <2>2, <2>3 DEF Single, Changed
  <2> QED
    BY <2>4, <2>5, <2>7, <2>8 DEF GInv
<1> QED
  BY <1>2, <1>3

(* The file that gets the name of the block is open, so it is written.     *)
LEMMA RenameStep ==
  ASSUME GInv, NEW t \in Thread, rename(t)
  PROVE  GInv'
<1>1. /\ GTypeOK /\ Files /\ Single /\ GrubWhole /\ gpc[t] = "rename"
      /\ grubenv' = IF new # 0 THEN new ELSE grubenv
      /\ gpc' = [gpc EXCEPT ![t] = IF new # 0 THEN "fclose" ELSE "error"] /\ new' = 0
      /\ UNCHANGED <<content, vars_, fd, change, calls, told, alone, torn>>
  BY DEF GInv, rename, Goto
<1>2. \A u \in Thread :
        gpc'[u] = IF u = t THEN IF new # 0 THEN "fclose" ELSE "error" ELSE gpc[u]
  BY <1>1 DEF GTypeOK
<1>3. GTypeOK'
  BY <1>1, FirstFiles DEF GTypeOK
<1>4. Files'
  BY <1>1, <1>2 DEF GTypeOK, Files, Streams
<1>5. GrubWhole'
  BY <1>1 DEF Files, GrubWhole
<1>6. Single'
  BY <1>1, <1>2 DEF Single, Changed
<1> QED
  BY <1>3, <1>4, <1>5, <1>6 DEF GInv

(* The block that is written is whole, and what a lone caller is told.     *)
LEMMA CloseStep ==
  ASSUME GInv, NEW t \in Thread, fclose(t)
  PROVE  GInv'
<1>1. /\ GTypeOK /\ Files /\ Single /\ GrubWhole /\ gpc[t] \in {"fclose", "error"}
      /\ content' = [content EXCEPT ![fd[t]] = vars_[t]]
      /\ told' = [v \in GVar |-> IF gpc[t] = "fclose" /\ v \in change[t].names
                                 THEN change[t].value ELSE told[v]]
      /\ fd' = [fd EXCEPT ![t] = 0] /\ gpc' = [gpc EXCEPT ![t] = "idle"]
      /\ UNCHANGED <<grubenv, new, vars_, change, calls, alone, torn>>
  BY DEF GInv, fclose, Goto
<1>2. /\ \A u \in Thread : gpc'[u] = IF u = t THEN "idle" ELSE gpc[u]
      /\ \A u \in Thread : fd'[u] = IF u = t THEN 0 ELSE fd[u]
      /\ content'[grubenv] = IF fd[t] = grubenv THEN vars_[t] ELSE content[grubenv]
  BY <1>1 DEF GTypeOK
<1>3. told' \in Block
  <2>1. change[t].value \in 0..MaxCalls
    BY <1>1 DEF GTypeOK, Change
  <2>2. \A v \in GVar : told[v] \in 0..MaxCalls
    BY <1>1 DEF GTypeOK, Block
  <2> QED
    BY <1>1, <2>1, <2>2 DEF Block
<1>4. GTypeOK'
  <2>1. 0 \in File
    BY FirstFiles
  <2>2. content' \in [File -> Block \cup {Empty}]
    BY <1>1 DEF GTypeOK
  <2> QED
    BY <1>1, <1>3, <2>1, <2>2 DEF GTypeOK
<1>5. Files'
  BY <1>1, <1>2 DEF Files, Streams
<1>6. vars_[t] # Empty
  BY <1>1, BlockIsNotEmpty DEF GTypeOK
<1>7. GrubWhole'
  BY <1>1, <1>2, <1>6 DEF GrubWhole
<1>8. Single'
  <2> SUFFICES ASSUME alone' PROVE Single'
    BY DEF Single
  <2>1. gpc[t] = "fclose" /\ fd[t] = grubenv /\ vars_[t] = Changed(t)
    BY <1>1 DEF Single
  <2>2. told' = Changed(t)
    BY <1>1, <2>1 DEF Changed
  <2>3. \A u \in Thread : gpc'[u] = "idle"
    BY <1>1, <1>2 DEF Single
  <2> QED
    BY <1>1, <1>2, <2>1, <2>2, <2>3 DEF Single
<1> QED
  BY <1>4, <1>5, <1>7, <1>8 DEF GInv

(* After a power cut nothing is open, and the cut is remembered.           *)
LEMMA CutStep == ASSUME GInv, power_cut PROVE GInv'
<1>1. /\ GTypeOK /\ Files /\ GrubWhole
      /\ gpc' = [t \in Thread |-> "idle"] /\ fd' = [t \in Thread |-> 0]
      /\ alone' = FALSE /\ torn' = (torn \/ \E t \in Thread : fd[t] = grubenv)
      /\ UNCHANGED <<grubenv, new, content, vars_, change, calls, told>>
  BY DEF GInv, power_cut
<1>2. torn' \in BOOLEAN /\ alone' \in BOOLEAN
  BY <1>1, Zenon DEF GTypeOK
<1>3. GTypeOK'
  BY <1>1, <1>2, FirstFiles DEF GTypeOK
<1>4. Files' /\ Single'
  BY <1>1 DEF Files, Streams, Single
<1>5. GrubWhole'
  BY <1>1, Zenon DEF GrubWhole
<1> QED
  BY <1>3, <1>4, <1>5 DEF GInv

(* The environment block of GRUB (grubenv_open, grubenv_write, rename and  *)
(* fclose by any number of threads, and power cuts between them): it is    *)
(* whole but for the time between a rename and the fclose that follows,    *)
(* and calls that do not overlap leave in it what they reported.           *)
THEOREM GrubCorrect == GSpec => []GrubRight
<1>1. GInv /\ [GNext]_gvars => GInv'
  <2> SUFFICES ASSUME GInv, [GNext]_gvars PROVE GInv'
    OBVIOUS
  <2>1. ASSUME NEW t \in Thread,
               grub_env_set(t) \/ grub_env_unset(t) \/ grub_apply_list(t)
        PROVE  GInv'
    BY <2>1, OpenStep, Zenon DEF grub_env_set, grub_env_unset, grub_apply_list, Function
  <2>2. CASE UNCHANGED gvars
    BY <2>2 DEF gvars, GInv, GTypeOK, Files, Single, Changed, GrubWhole
  <2> QED
    BY <2>1, <2>2, WriteStep, RenameStep, CloseStep, CutStep, Zenon DEF GNext
<1>2. GInv => GrubRight
  BY DEF GInv, GrubRight, Single, GrubDurable
<1> QED
  BY GInvInit, <1>1, <1>2, PTL DEF GSpec
=============================================================================
