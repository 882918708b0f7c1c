----------------------------- MODULE X87Proofs -----------------------------
(***************************************************************************)
(* Proofs about X87, for every size of the register file and every set of  *)
(* values and of optional instructions.  An instruction is a composition   *)
(* of register operations, so the invariant Good is stated of a unit and   *)
(* each operation has a lemma that it preserves Good; an action is then    *)
(* proved by following its composition.                                    *)
(***************************************************************************)
EXTENDS X87Discipline, TLAPS, FiniteSetTheorems

\* The pointer and its copy, as far as the program lets them agree.
TopGood(u) ==
  /\ u.status.top \in {u.stackPointer, 0}
  /\ "FCLEX" \notin uses => TopTracked(u)

TagsGood(u) ==
  u.initialized /\ {"FLDENV", "FCLEX"} \cap uses = {} => \A r \in Index : Truthful(u, r)

Good(u) == u \in Units /\ TopGood(u) /\ TagsGood(u)

\* What an image promises FRSTOR: its tags are true of its registers, in the
\* order in which it holds them.
ImageTrue(image, i) ==
  LET tag == image.tags[(image.status.top + i) % NRegs] IN
  tag = "EMPTY" \/ tag = TagOf(image.stack[i]) \/ (tag = "VALID" /\ image.stack[i] = "inf")

ImageGood(image) ==
  image.written /\ {"FLDENV", "FCLEX"} \cap uses = {} => \A i \in Index : ImageTrue(image, i)

\* The inductive invariant.
IInv ==
  /\ uses \in Programs
  /\ Good(unit) /\ env \in Environments /\ saved \in Images /\ mem \in Reals
  /\ ImageGood(saved)

-----------------------------------------------------------------------------
(* Arithmetic of the wrapping pointer.                                     *)

LEMMA ModIndex == ASSUME NEW a \in Int PROVE a % NRegs \in Index
  BY X87Assumption, SMT DEF Index

LEMMA ModSmall == ASSUME NEW a \in Index PROVE a % NRegs = a
  BY X87Assumption, SMT DEF Index

LEMMA ModOnce == ASSUME NEW a \in NRegs .. 2 * NRegs - 1 PROVE a % NRegs = a - NRegs
  BY X87Assumption, SMT

LEMMA ModNegative == ASSUME NEW a \in 0 - NRegs .. -1 PROVE a % NRegs = a + NRegs
  BY X87Assumption, SMT

\* st(i) of the register r is at r again.
LEMMA PhysInverse ==
  ASSUME NEW top \in Index, NEW r \in Index
  PROVE  (top + ((r - top) % NRegs)) % NRegs = r
  BY X87Assumption, ModSmall, ModOnce, ModNegative, SMT DEF Index

\* The number of a register, counted from the top.
LEMMA CountedFromTop ==
  ASSUME NEW top \in Index, NEW i \in Index
  PROVE  (((top + i) % NRegs) - top) % NRegs = i
  <1>1. top \in 0 .. NRegs - 1 /\ i \in 0 .. NRegs - 1 /\ NRegs \in Nat
    BY X87Assumption DEF Index
  <1>2. CASE top + i < NRegs
    <2>1. (top + i) % NRegs = top + i
      BY <1>1, <1>2, ModSmall DEF Index
    <2>2. ((top + i) % NRegs) - top = i
      BY <1>1, <2>1
    <2> QED
      BY <2>2, ModSmall
  <1>3. CASE top + i >= NRegs
    <2>1. (top + i) % NRegs = top + i - NRegs
      BY <1>1, <1>3, ModOnce
    <2>2. (i - NRegs) % NRegs = i
      BY <1>1, ModNegative
    <2>3. ((top + i) % NRegs) - top = i - NRegs
      BY <1>1, <2>1
    <2> QED
      BY <2>2, <2>3
  <1> QED
    BY <1>1, <1>2, <1>3

LEMMA PhysIndex == ASSUME NEW u \in Units, NEW i \in Int PROVE Phys(u, i) \in Index
  <1>1. u.stackPointer \in Int
    BY X87Assumption DEF Units, Index
  <1> QED
    BY <1>1, ModIndex, SMT DEF Phys

LEMMA TagOfType == \A v : TagOf(v) \in Tags
  BY DEF TagOf, Tags

LEMMA ValueTypes == Reals \subseteq Values /\ "inf" \in Values /\ "undefined" \in Values
  BY X87Assumption DEF Values

-----------------------------------------------------------------------------
(* Each register operation preserves Good.                                 *)

LEMMA ThrowGood == ASSUME NEW u, Good(u), NEW t \in Traps PROVE Good(Throw(u, t))
  BY DEF Good, Throw, Units, TopGood, TopTracked, TagsGood, Truthful

\* The status bits are no part of what Good says, except the top.
LEMMA StatusGood ==
  ASSUME NEW u, Good(u), NEW s \in Status, s.top = u.status.top
  PROVE  Good([u EXCEPT !.status = s])
  BY DEF Good, Units, TopGood, TopTracked, TagsGood, Truthful

LEMMA RaiseGood ==
  ASSUME NEW u, Good(u), NEW mask, NEW t \in Traps
  PROVE  Good(Raise(u, mask, t))
  BY ThrowGood DEF Raise

LEMMA NeedsStackGood == ASSUME NEW u, Good(u) PROVE Good(NeedsStack(u))
  BY ThrowGood DEF NeedsStack, Traps

LEMMA FlagsGood ==
  ASSUME NEW u, Good(u), NEW a \in BOOLEAN, NEW b \in BOOLEAN, NEW c \in BOOLEAN
  PROVE  Good([u EXCEPT !.status.c1 = a, !.status.sf = b, !.status.ie = c])
  <1> DEFINE s == [u.status EXCEPT !.c1 = a, !.sf = b, !.ie = c]
  <1>1. u \in Units /\ u.status \in Status
    BY DEF Good, Units
  <1>2. s \in Status /\ s.top = u.status.top
    BY <1>1 DEF Status
  <1>3. [u EXCEPT !.status.c1 = a, !.status.sf = b, !.status.ie = c] = [u EXCEPT !.status = s]
    BY <1>1 DEF Units, Status
  <1> QED
    BY <1>2, <1>3, StatusGood

LEMMA EmptyGood ==
  ASSUME NEW u, Good(u), NEW r \in Index
  PROVE  Good([u EXCEPT !.tags[r] = "EMPTY"])
  <1> DEFINE w == [u EXCEPT !.tags[r] = "EMPTY"]
  <1>1. w \in Units
    BY DEF Good, Units, Tags
  <1>2. TopGood(w)
    BY DEF Good, Units, TopGood, TopTracked
  <1>3. TagsGood(w)
    BY DEF Good, Units, TagsGood, Truthful
  <1> QED
    BY <1>1, <1>2, <1>3 DEF Good

LEMMA SetStackPointerGood ==
  ASSUME NEW u, Good(u), NEW n \in Int
  PROVE  Good(SetStackPointer(u, n))
  <1> DEFINE top == n % NRegs
             w   == [u EXCEPT !.stackPointer = top, !.status.top = top]
  <1>1. u \in Units /\ u.status \in Status /\ top \in Index
    BY ModIndex DEF Good, Units
  <1> HIDE DEF top
  <1>2. w \in Units
    BY <1>1 DEF Units, Status
  <1>3. w.stackPointer = top /\ w.status.top = top
    BY <1>1 DEF Units, Status
  <1>4. TopGood(w)
    BY <1>3 DEF TopGood, TopTracked
  <1>5. TagsGood(w)
    BY <1>1 DEF Good, Units, TagsGood, Truthful
  <1> QED
    BY <1>2, <1>4, <1>5 DEF Good, SetStackPointer, top

\* A register takes a value together with a tag that is true of it.
LEMMA PutGood ==
  ASSUME NEW u, Good(u), NEW r \in Index, NEW v \in Values, NEW t \in Tags,
         t = TagOf(v) \/ (t = "VALID" /\ v = "inf")
  PROVE  Good([u EXCEPT !.stack[r] = v, !.tags[r] = t])
  <1> DEFINE w == [u EXCEPT !.stack[r] = v, !.tags[r] = t]
  <1>1. u \in Units
    BY DEF Good
  <1>2. w \in Units
    BY <1>1 DEF Units
  <1>3. TopGood(w)
    BY <1>1 DEF Good, Units, TopGood, TopTracked
  <1>4. Truthful(w, r)
    BY <1>1 DEF Units, Truthful
  <1>5. ASSUME NEW q \in Index, q # r, Truthful(u, q)
        PROVE  Truthful(w, q)
    BY <1>1, <1>5 DEF Units, Truthful
  <1>6. TagsGood(w)
    BY <1>1, <1>4, <1>5 DEF Good, Units, TagsGood
  <1> QED
    BY <1>2, <1>3, <1>6 DEF Good

\* Before the first FINIT tags promise nothing.
LEMMA MarkGood ==
  ASSUME NEW u, Good(u), ~u.initialized, NEW r \in Index, NEW t \in Tags
  PROVE  Good([u EXCEPT !.tags[r] = t])
  BY DEF Good, Units, TopGood, TopTracked, TagsGood

LEMMA NthGood ==
  ASSUME NEW u, Good(u), NEW i \in Int
  PROVE  Good(Nth(u, i))
  <1> DEFINE sf == u.status.sf \/ u.tags[Phys(u, i)] = "EMPTY"
             s  == [u.status EXCEPT !.sf = sf]
             w  == [u EXCEPT !.status = s]
  <1>1. u \in Units /\ u.status \in Status
    BY DEF Good, Units
  <1>2. sf \in BOOLEAN
    BY <1>1 DEF Status
  <1> HIDE DEF sf
  <1>3. s \in Status /\ s.top = u.status.top
    BY <1>1, <1>2 DEF Status
  <1>4. Good(NeedsStack(w))
    BY <1>3, StatusGood, NeedsStackGood
  <1>5. [u EXCEPT !.status.sf = sf] = w
    BY <1>1 DEF Units, Status
  <1> QED
    BY <1>4, <1>5 DEF Nth, sf

LEMMA SetNthValueGood ==
  ASSUME NEW u, Good(u), NEW i \in Int, NEW v \in Values
  PROVE  Good(SetNthValue(u, i, v))
  <1>1. Phys(u, i) \in Index
    BY PhysIndex DEF Good
  <1>2. Good([u EXCEPT !.stack[Phys(u, i)] = v, !.tags[Phys(u, i)] = TagOf(v)])
    BY <1>1, PutGood, TagOfType
  <1>3. Good(Throw(u, "TypeError"))
    BY ThrowGood DEF Traps
  <1> QED
    BY <1>2, <1>3 DEF SetNthValue

LEMMA SafePopGood == ASSUME NEW u, Good(u) PROVE Good(SafePop(u))
  <1> DEFINE emptied == [u EXCEPT !.tags[u.stackPointer] = "EMPTY"]
             moved   == SetStackPointer(emptied, u.stackPointer + 1)
             fault   == [moved EXCEPT !.status.c1 = FALSE, !.status.sf = TRUE, !.status.ie = TRUE]
             popped  == IF u.tags[u.stackPointer] = "EMPTY" THEN Raise(fault, "UM", "stack")
                        ELSE moved
  <1>1. u.stackPointer \in Index /\ u.stackPointer + 1 \in Int
    BY X87Assumption DEF Good, Units, Index
  <1>2. Good(moved)
    BY <1>1, EmptyGood, SetStackPointerGood
  <1> HIDE DEF moved
  <1>3. Good(fault)
    BY <1>2, FlagsGood
  <1> HIDE DEF fault
  <1>4. Good(popped)
    BY <1>2, <1>3, RaiseGood DEF Traps
  <1>5. Good(IF popped.trap = "none" THEN NeedsStack(popped) ELSE popped)
    BY <1>4, NeedsStackGood
  <1> QED
    BY <1>5 DEF SafePop, moved, fault

LEMMA SafePushGood == ASSUME NEW u, Good(u), NEW v \in Values PROVE Good(SafePush(u, v))
  <1> DEFINE moved  == SetStackPointer(u, u.stackPointer - 1)
             top    == moved.stackPointer
             fault  == [moved EXCEPT !.status.c1 = TRUE, !.status.sf = TRUE,
                                     !.status.ie = TRUE, !.tags[top] = "VALID"]
             full   == [fault EXCEPT !.stack[top] = "inf"]
             pushed == [moved EXCEPT !.status.c1 = FALSE, !.tags[top] = TagOf(v)]
             stored == [pushed EXCEPT !.stack[top] = v]
  <1>1. Good(moved)
    <2>1. u.stackPointer - 1 \in Int
      BY X87Assumption DEF Good, Units, Index
    <2> QED
      BY <2>1, SetStackPointerGood
  <1>2. moved.initialized = u.initialized
    BY DEF SetStackPointer, Good, Units
  <1> HIDE DEF moved
  <1>3. moved \in Units /\ top \in Index /\ moved.status \in Status
    BY <1>1 DEF Good, Units
  <1> HIDE DEF top
  <1> DEFINE flagged == [moved EXCEPT !.status.c1 = TRUE, !.status.sf = TRUE, !.status.ie = TRUE]
             clear   == [moved EXCEPT !.status.c1 = FALSE, !.status.sf = moved.status.sf,
                                      !.status.ie = moved.status.ie]
  <1>4. Good(flagged) /\ Good(clear)
    BY <1>1, <1>3, FlagsGood DEF Status
  <1>5. flagged.initialized = u.initialized /\ clear.initialized = u.initialized
    BY <1>2, <1>3 DEF Units
  <1>6. fault = [flagged EXCEPT !.tags[top] = "VALID"]
    BY <1>3 DEF Units, Status
  <1>7. pushed = [clear EXCEPT !.tags[top] = TagOf(v)]
    BY <1>3 DEF Units, Status
  <1> HIDE DEF flagged, clear, fault, pushed
  <1>8. CASE ~u.initialized
    <2>1. Good(fault) /\ Good(pushed)
      BY <1>3, <1>4, <1>5, <1>6, <1>7, <1>8, MarkGood, TagOfType DEF Tags
    <2>2. Good(Throw(fault, "TypeError")) /\ Good(Throw(pushed, "TypeError"))
      BY <2>1, ThrowGood DEF Traps
    <2> QED
      BY <1>8, <2>2 DEF SafePush, moved, top, fault, pushed
  <1>9. CASE u.initialized
    <2>1. full = [flagged EXCEPT !.stack[top] = "inf", !.tags[top] = "VALID"]
      BY <1>3, <1>4, <1>6 DEF Good, Units
    <2>2. stored = [clear EXCEPT !.stack[top] = v, !.tags[top] = TagOf(v)]
      BY <1>3, <1>4, <1>7 DEF Good, Units
    <2>3. Good(full)
      <3>1. "inf" \in Values /\ "VALID" \in Tags
        BY ValueTypes DEF Tags
      <3>2. Good([flagged EXCEPT !.stack[top] = "inf", !.tags[top] = "VALID"])
        BY <1>3, <1>4, <3>1, PutGood
      <3> QED
        BY <2>1, <3>2
    <2>4. Good(stored)
      <3>1. TagOf(v) \in Tags
        BY TagOfType
      <3>2. Good([clear EXCEPT !.stack[top] = v, !.tags[top] = TagOf(v)])
        BY <1>3, <1>4, <3>1, PutGood
      <3> QED
        BY <2>2, <3>2
    <2>5. Good(Raise(full, "OM", "stack"))
      BY <2>3, RaiseGood DEF Traps
    <2> QED
      BY <1>9, <2>4, <2>5 DEF SafePush, moved, top, fault, pushed
  <1> QED
    BY <1>8, <1>9

LEMMA CheckOperandsGood ==
  ASSUME NEW u, Good(u), NEW a, NEW b
  PROVE  Good(CheckOperands(u, a, b))
  <1> DEFINE s == [u.status EXCEPT !.ie = TRUE]
  <1>1. u \in Units /\ u.status \in Status
    BY DEF Good, Units
  <1>2. Good([u EXCEPT !.status = s])
    BY <1>1, StatusGood DEF Status
  <1>3. [u EXCEPT !.status.ie = TRUE] = [u EXCEPT !.status = s]
    BY <1>1 DEF Units, Status
  <1>4. Good(Raise([u EXCEPT !.status.ie = TRUE], "IM", "invalid"))
    BY <1>2, <1>3, RaiseGood DEF Traps
  <1> QED
    BY <1>4 DEF CheckOperands

LEMMA CheckDivisionGood ==
  ASSUME NEW u, Good(u), NEW a, NEW b
  PROVE  Good(CheckDivision(u, a, b))
  <1> DEFINE s(z) == [u.status EXCEPT !.ze = z]
  <1>1. u \in Units /\ u.status \in Status
    BY DEF Good, Units
  <1>2. ASSUME NEW z \in BOOLEAN
        PROVE  Good([u EXCEPT !.status.ze = z])
    <2>1. Good([u EXCEPT !.status = s(z)])
      BY <1>1, StatusGood DEF Status
    <2>2. [u EXCEPT !.status.ze = z] = [u EXCEPT !.status = s(z)]
      BY <1>1 DEF Units, Status
    <2> QED
      BY <2>1, <2>2
  <1>3. Good(Raise([u EXCEPT !.status.ze = TRUE], "ZM", "zero divide"))
    BY <1>2, RaiseGood DEF Traps
  <1>4. Good(CheckOperands([u EXCEPT !.status.ze = FALSE], a, b))
    BY <1>2, CheckOperandsGood
  <1> QED
    BY <1>3, <1>4 DEF CheckDivision

LEMMA ResetGood == ASSUME NEW u, u.trap \in Traps PROVE Good(ResetUnit(u))
  <1>1. 0 \in Index
    BY X87Assumption DEF Index
  <1>2. ResetUnit(u) \in Units
    BY <1>1, ValueTypes DEF ResetUnit, Units, Status, Tags
  <1> QED
    BY <1>2 DEF Good, ResetUnit, TopGood, TopTracked, TagsGood, Truthful

LEMMA LoadEnvGood ==
  ASSUME NEW u, Good(u), NEW image, image.control \in SUBSET Masks,
         image.status \in Status, image.tags \in [Index -> Tags],
         ~u.initialized \/ "FLDENV" \in uses
  PROVE  Good(LoadEnv(u, image))
  <1>1. u \in Units
    BY DEF Good
  <1>2. LoadEnv(u, image) \in Units
    BY <1>1 DEF LoadEnv, Units, Status
  <1>3. TopGood(LoadEnv(u, image))
    BY <1>1 DEF LoadEnv, Units, TopGood, TopTracked
  <1>4. TagsGood(LoadEnv(u, image))
    BY <1>1 DEF LoadEnv, Units, TagsGood
  <1> QED
    BY <1>2, <1>3, <1>4 DEF Good

\* FRSTOR fills the file from st(0) of the loaded top on: the register r takes
\* the place in the image that FSAVE gave it, and its tag with it.
LEMMA RestoredGood ==
  ASSUME NEW u, Good(u), NEW image \in Images, ImageGood(image), image.written
  PROVE  Good(Restored(u, image))
  <1> DEFINE top    == image.status.top
             loaded == LoadEnv(u, image)
             place(r) == (r - top) % NRegs
             w == [loaded EXCEPT !.stack = [r \in Index |-> image.stack[place(r)]]]
  <1>1. u \in Units
    BY DEF Good
  <1>2. /\ image.control \in SUBSET Masks /\ image.status \in Status
        /\ image.tags \in [Index -> Tags] /\ image.stack \in [Index -> Reals]
        /\ top \in Index
    BY DEF Images, Status
  <1>3. CASE ~u.initialized
    <2>1. Good(Throw(loaded, "TypeError"))
      BY <1>2, <1>3, LoadEnvGood, ThrowGood DEF Traps
    <2> QED
      BY <1>3, <2>1 DEF Restored
  <1>4. CASE u.initialized
    <2>1. loaded \in Units /\ loaded.stackPointer = top
      BY <1>1, <1>2 DEF LoadEnv, Units
    <2>2. loaded.tags = image.tags /\ loaded.status = image.status /\ loaded.initialized
      BY <1>1, <1>4 DEF LoadEnv, Units
    <2>3. ASSUME NEW r \in Index
          PROVE  place(r) \in Index /\ (top + place(r)) % NRegs = r
      <3>1. r - top \in Int
        BY <1>2, X87Assumption DEF Index
      <3> QED
        BY <1>2, <3>1, ModIndex, PhysInverse
    <2> HIDE DEF loaded, place, top
    <2>4. [r \in Index |-> image.stack[place(r)]] \in [Index -> Values]
      BY <1>2, <2>3, ValueTypes
    <2> DEFINE placed == [r \in Index |-> image.stack[place(r)]]
    <2>5. \A r \in Index : placed[r] = image.stack[place(r)]
      OBVIOUS
    <2> HIDE DEF placed
    <2> DEFINE v == [loaded EXCEPT !.stack = placed]
    <2>6. v \in Units
      BY <2>1, <2>4 DEF Units, placed
    <2>7. /\ v.stack = placed /\ v.tags = image.tags /\ v.stackPointer = top
          /\ v.status = image.status
      BY <2>1, <2>2 DEF Units
    <2>8. TopGood(v)
      BY <2>7 DEF TopGood, TopTracked, top
    <2>9. ASSUME NEW r \in Index, {"FLDENV", "FCLEX"} \cap uses = {}
          PROVE  Truthful(v, r)
      <3>1. ImageTrue(image, place(r))
        BY <2>3, <2>9 DEF ImageGood
      <3>2. image.tags[(image.status.top + place(r)) % NRegs] = v.tags[r]
        BY <2>3, <2>7 DEF top
      <3>3. image.stack[place(r)] = v.stack[r]
        BY <2>5, <2>7
      <3> QED
        BY <3>1, <3>2, <3>3 DEF ImageTrue, Truthful
    <2>10. Good(v)
      BY <2>6, <2>8, <2>9 DEF Good, TagsGood
    <2>11. Restored(u, image) = v
      BY <1>4, <2>1 DEF Restored, placed, place, loaded
    <2> QED
      BY <2>10, <2>11
  <1> QED
    BY <1>3, <1>4

-----------------------------------------------------------------------------
(* The composition of operations that an instruction is.                   *)

LEMMA WrittenReal == ASSUME NEW v \in Values PROVE Written(v) \in Reals
  BY X87Assumption DEF Written, Values

LEMMA StValue == ASSUME NEW u \in Units, NEW i \in Int PROVE St(u, i) \in Values
  BY PhysIndex DEF St, Units

LEMMA IndexInt == Index \subseteq Int /\ 0 \in Index /\ 1 \in Index
  BY X87Assumption DEF Index

LEMMA Nth2Good ==
  ASSUME NEW u, Good(u), NEW i \in Int, NEW j \in Int
  PROVE  Good(Nth2(u, i, j))
  BY NthGood DEF Nth2

\* tick clears the fault bits and the trap.
LEMMA FetchedGood == ASSUME Good(unit) PROVE Good(Fetched)
  <1> DEFINE s == [unit.status EXCEPT !.sf = FALSE, !.ie = FALSE]
             w == [unit EXCEPT !.status = s]
  <1>1. unit \in Units /\ unit.status \in Status
    BY DEF Good, Units
  <1>2. s \in Status /\ s.top = unit.status.top
    BY <1>1 DEF Status
  <1>3. Good(w)
    BY <1>2, StatusGood
  <1> HIDE DEF s
  <1>4. Good(Throw(w, "none"))
    BY <1>3, ThrowGood DEF Traps
  <1>5. Fetched = Throw(w, "none")
    BY <1>1 DEF Fetched, Throw, Units, Status, s
  <1> QED
    BY <1>4, <1>5

\* A unit and an image stay good when the program goes on being the same.
LEMMA UnitKept == ASSUME NEW u, Good(u), unit' = u, uses' = uses PROVE Good(unit)'
  BY DEF Good, TopGood, TagsGood

LEMMA ImageKept ==
  ASSUME NEW image, ImageGood(image), saved' = image, uses' = uses PROVE ImageGood(saved)'
  BY DEF ImageGood

\* An instruction that leaves a good unit and no image of it.
LEMMA ExecInv ==
  ASSUME IInv, NEW u, Good(u), Exec(u)
  PROVE  IInv'
  BY UnitKept, ImageKept DEF IInv, Exec

\* An instruction that leaves a good unit and may write a value to memory.
LEMMA StoreInv ==
  ASSUME IInv, NEW u, Good(u), NEW v \in Values, Store(u, v)
  PROVE  IInv'
  BY UnitKept, ImageKept, WrittenReal DEF IInv, Store

LEMMA InitInv == Init => IInv
  <1> SUFFICES ASSUME Init PROVE IInv
    OBVIOUS
  <1> DEFINE blank == [trap |-> "none"]
             r0    == ResetUnit(blank)
  <1>1. Good(r0)
    <2>1. blank.trap \in Traps
      BY DEF Traps
    <2> HIDE DEF blank
    <2> QED
      BY <2>1, ResetGood
  <1>2. unit \in Units /\ unit.status = r0.status /\ unit.stackPointer = r0.stackPointer
        /\ unit.initialized = FALSE
    BY <1>1 DEF Init, Good, Units, Tags
  <1>3. Good(unit)
    BY <1>1, <1>2 DEF Good, TopGood, TopTracked, TagsGood
  <1>4. env \in Environments /\ saved \in Images /\ mem \in Reals /\ ~saved.written
    BY <1>2, X87Assumption DEF Init, Environments, Images, Units
  <1> QED
    BY <1>3, <1>4 DEF Init, IInv, ImageGood

-----------------------------------------------------------------------------
(* Each group of instructions preserves the invariant.                     *)

LEMMA StackInv == ASSUME IInv, Stack PROVE IInv'
  <1> USE IndexInt, ValueTypes
  <1>1. Good(unit) /\ Good(Fetched) /\ unit \in Units
    BY FetchedGood DEF IInv, Good
  <1>2. ASSUME NEW v \in Reals, FLD(v)
        PROVE  IInv'
    BY <1>1, <1>2, SafePushGood, ExecInv DEF FLD
  <1>3. ASSUME NEW v \in Reals, FIST(v)
        PROVE  IInv'
    BY <1>1, <1>3, NthGood, StoreInv DEF FIST
  <1>4. ASSUME NEW v \in Reals, FISTP(v)
        PROVE  IInv'
    <2>1. Good(SafePop(Nth(Fetched, 0)))
      BY <1>1, NthGood, SafePopGood
    <2> QED
      BY <1>4, <2>1, UnitKept, ImageKept DEF FISTP, IInv
  <1>5. CASE FST
    BY <1>1, <1>5, NthGood, StValue, StoreInv DEF FST
  <1>6. CASE FSTP
    <2>1. Good(SafePop(Fetched)) /\ SafePop(Fetched) \in Units
      BY <1>1, SafePopGood DEF Good
    <2> QED
      BY <1>6, <2>1, StValue, StoreInv DEF FSTP
  <1>7. CASE FXAM
    BY <1>1, <1>7, NthGood, ExecInv DEF FXAM
  <1>8. CASE FINCSTP
    <2>1. PICK d \in {-1, 1} : Exec(SetStackPointer(Fetched, unit.stackPointer + d))
      BY <1>8 DEF FINCSTP
    <2>2. unit.stackPointer \in Int
      BY <1>1 DEF Units
    <2>3. unit.stackPointer + d \in Int
      BY <2>2
    <2> QED
      BY <1>1, <2>1, <2>3, SetStackPointerGood, ExecInv
  <1>9. ASSUME NEW i \in Index, FLDst(i)
        PROVE  IInv'
    BY <1>1, <1>9, SafePushGood, ExecInv DEF FLDst
  <1>10. ASSUME NEW i \in Index
         PROVE  Good(SetNthValue(Nth(Fetched, 0), i, St(unit, 0)))
    BY <1>1, NthGood, StValue, SetNthValueGood
  <1>11. ASSUME NEW i \in Index, FSTst(i)
         PROVE  IInv'
    BY <1>10, <1>11, ExecInv DEF FSTst
  <1>12. ASSUME NEW i \in Index, FSTPst(i)
         PROVE  IInv'
    BY <1>10, <1>12, SafePopGood, ExecInv DEF FSTPst
  <1>13. ASSUME NEW i \in Index, FXCH(i)
         PROVE  IInv'
    <2> DEFINE first == SetNthValue(Nth2(Fetched, 0, i), 0, St(unit, i))
    <2>1. i \in Int /\ St(unit, i) \in Values /\ St(unit, 0) \in Values
      BY <1>1, StValue
    <2>2. Good(first)
      BY <1>1, <2>1, Nth2Good, SetNthValueGood
    <2>3. Good(SetNthValue(first, i, St(unit, 0)))
      BY <2>1, <2>2, SetNthValueGood
    <2> QED
      BY <1>13, <2>3, ExecInv DEF FXCH
  <1>14. ASSUME NEW i \in Index, FFREE(i)
         PROVE  IInv'
    BY <1>1, <1>14, EmptyGood, ExecInv DEF FFREE
  <1> QED
    BY <1>2, <1>3, <1>4, <1>5, <1>6, <1>7, <1>8, <1>9, <1>11, <1>12, <1>13, <1>14 DEF Stack

\* FSAVE writes the registers in the order of the stack, so that the tags in its
\* image, which are in the order of the file, are true of them by way of the top.
LEMMA FsaveInv == ASSUME IInv, FSAVE PROVE IInv'
  <1>1. /\ Good(unit) /\ Good(Fetched) /\ unit \in Units /\ Fetched \in Units
        /\ env \in Environments /\ saved \in Images /\ mem \in Reals /\ ImageGood(saved)
    BY FetchedGood DEF IInv, Good
  <1>2. Fetched.trap \in Traps /\ Fetched.status \in Status
    BY <1>1 DEF Units
  <1>3. Fetched.status.top = unit.status.top
    BY <1>1 DEF Fetched, Units, Status
  <1>4. /\ saved'.control \in SUBSET Masks /\ saved'.status = Fetched.status
        /\ saved'.tags = unit.tags /\ saved'.written = unit.initialized
        /\ saved'.stack = IF unit.initialized THEN SavedRegisters(unit) ELSE saved.stack
        /\ saved' = [control |-> saved'.control, status |-> saved'.status, tags |-> saved'.tags,
                     stack |-> saved'.stack, written |-> saved'.written]
    BY <1>1 DEF FSAVE, Units
  <1>5. ASSUME NEW i \in Index
        PROVE  Phys(unit, i) \in Index /\ St(unit, i) \in Values /\ Written(St(unit, i)) \in Reals
    BY <1>1, IndexInt, PhysIndex, StValue, WrittenReal
  <1>6. SavedRegisters(unit) \in [Index -> Reals]
    BY <1>5 DEF SavedRegisters
  <1>7. saved'.stack \in [Index -> Reals]
    BY <1>1, <1>4, <1>6 DEF Images
  <1>8. saved' \in Images
    BY <1>1, <1>2, <1>4, <1>7 DEF Images, Units
  <1>9. ASSUME NEW i \in Index, unit.initialized, {"FLDENV", "FCLEX"} \cap uses = {}
        PROVE  ImageTrue(saved', i)
    <2>1. unit.status.top = unit.stackPointer
      BY <1>1, <1>9 DEF Good, TopGood, TopTracked
    <2>2. saved'.tags[(saved'.status.top + i) % NRegs] = unit.tags[Phys(unit, i)]
      BY <1>3, <1>4, <2>1 DEF Phys
    <2>3. saved'.stack[i] = Written(St(unit, i))
      BY <1>4, <1>9 DEF SavedRegisters
    <2>4. Truthful(unit, Phys(unit, i))
      BY <1>1, <1>5, <1>9 DEF Good, TagsGood
    <2>5. St(unit, i) = "undefined" => TagOf(St(unit, i)) = "EMPTY"
      BY DEF TagOf
    <2>6. St(unit, i) = unit.stack[Phys(unit, i)]
      BY DEF St
    <2>7. CASE St(unit, i) = "undefined"
      BY <2>2, <2>4, <2>5, <2>6, <2>7 DEF Truthful, ImageTrue
    <2>8. CASE St(unit, i) # "undefined"
      BY <2>2, <2>3, <2>4, <2>6, <2>8 DEF Truthful, ImageTrue, Written
    <2> QED
      BY <2>7, <2>8
  <1>10. ImageGood(saved')
    BY <1>4, <1>9 DEF ImageGood
  <1>11. Good(unit')
    BY <1>1, <1>2, ResetGood, NthGood, IndexInt DEF FSAVE
  <1> QED
    BY <1>1, <1>8, <1>10, <1>11, UnitKept, ImageKept DEF FSAVE, IInv

LEMMA ControlInv == ASSUME IInv, Control PROVE IInv'
  <1>1. /\ Good(unit) /\ Good(Fetched) /\ unit \in Units /\ Fetched \in Units
        /\ env \in Environments /\ saved \in Images /\ mem \in Reals /\ ImageGood(saved)
    BY FetchedGood DEF IInv, Good
  <1>2. Fetched.trap \in Traps /\ Fetched.status \in Status /\ unit.status \in Status
    BY <1>1 DEF Units
  <1>3. Good(ResetUnit(Fetched))
    BY <1>2, ResetGood
  <1>4. CASE FINIT
    BY <1>3, <1>4, ExecInv DEF FINIT
  <1>5. CASE FNINIT
    BY <1>1, <1>5, ExecInv DEF FNINIT
  <1>6. CASE FCLEX
    <2> DEFINE s == ResetUnit(Fetched).status
               w == [Fetched EXCEPT !.status = s]
    <2>1. s \in Status /\ s.top = 0
      BY <1>3 DEF ResetUnit, Good, Units
    <2>2. "FCLEX" \in uses
      BY <1>6 DEF FCLEX
    <2> HIDE DEF s
    <2>3. w \in Units /\ w.status = s
      BY <1>1, <2>1 DEF Units
    <2>4. TopGood(w) /\ TagsGood(w)
      BY <2>1, <2>2, <2>3 DEF TopGood, TagsGood
    <2>5. Good(w)
      BY <2>3, <2>4 DEF Good
    <2> QED
      BY <1>6, <2>5, ExecInv DEF FCLEX, s
  <1>7. CASE FNCLEX
    <2> DEFINE s == [Fetched.status EXCEPT !.ze = FALSE]
    <2>1. s \in Status /\ s.top = Fetched.status.top
      BY <1>2 DEF Status
    <2>2. Good([Fetched EXCEPT !.status = s])
      BY <1>1, <2>1, StatusGood
    <2>3. [Fetched EXCEPT !.status.ze = FALSE] = [Fetched EXCEPT !.status = s]
      BY <1>1, <1>2 DEF Units, Status
    <2> QED
      BY <1>7, <2>2, <2>3, ExecInv DEF FNCLEX
  <1>8. ASSUME NEW masks \in SUBSET Masks, FLDCW(masks)
        PROVE  IInv'
    <2>1. Good([Fetched EXCEPT !.control = masks])
      BY <1>1 DEF Good, Units, TopGood, TopTracked, TagsGood, Truthful
    <2> QED
      BY <1>8, <2>1, ExecInv DEF FLDCW
  <1>9. CASE FSTENV
    <2>1. env' \in Environments
      BY <1>1, <1>2, <1>9 DEF FSTENV, Environments, Units
    <2> QED
      BY <1>1, <1>9, <2>1, UnitKept, ImageKept DEF FSTENV, IInv
  <1>10. CASE FLDENV
    <2>1. "FLDENV" \in uses
      BY <1>10 DEF FLDENV
    <2>2. env.control \in SUBSET Masks /\ env.status \in Status /\ env.tags \in [Index -> Tags]
      BY <1>1 DEF Environments
    <2>3. Good(LoadEnv(Fetched, env))
      BY <1>1, <2>1, <2>2, LoadEnvGood
    <2> QED
      BY <1>10, <2>3, ExecInv DEF FLDENV
  <1>11. CASE FRSTOR
    BY <1>1, <1>11, RestoredGood, ExecInv DEF FRSTOR
  <1>12. CASE FSAVE
    BY <1>12, FsaveInv
  <1> QED
    BY <1>4, <1>5, <1>6, <1>7, <1>8, <1>9, <1>10, <1>11, <1>12 DEF Control

LEMMA ArithmeticInv == ASSUME IInv, Arithmetic PROVE IInv'
  <1> USE IndexInt, ValueTypes
  <1>1. Good(unit) /\ Good(Fetched) /\ unit \in Units
    BY FetchedGood DEF IInv, Good
  <1>2. ASSUME NEW i \in Int, NEW j \in Int
        PROVE  Good(Nth2(Fetched, i, j))
    BY <1>1, Nth2Good
  <1>3. ASSUME NEW i \in Index
        PROVE  Good(Compared(i))
    BY <1>2, CheckOperandsGood DEF Compared
  <1>4. ASSUME NEW u, Good(u), NEW a, NEW b, NEW i \in Int, NEW v \in Reals
        PROVE  /\ Good(SetNthValue(u, i, v))
               /\ Good(SetNthValue(CheckOperands(u, a, b), i, v))
               /\ Good(SetNthValue(CheckDivision(u, a, b), i, v))
    BY <1>4, SetNthValueGood, CheckOperandsGood, CheckDivisionGood
  <1>5. ASSUME NEW v \in Reals, FPREM(v)
        PROVE  IInv'
    <2> DEFINE u == SetNthValue(Nth2(Fetched, 0, 1), 0, v)
    <2>1. PICK bit \in BOOLEAN :
            Exec(IF u.trap = "none" THEN [u EXCEPT !.status.c1 = @ \/ bit] ELSE u)
      BY <1>5 DEF FPREM
    <2>2. Good(u)
      BY <1>2, <1>4
    <2> HIDE DEF u
    <2> DEFINE s == [u.status EXCEPT !.c1 = @ \/ bit]
    <2>3. u \in Units /\ u.status \in Status
      BY <2>2 DEF Good, Units
    <2>4. s \in Status /\ s.top = u.status.top
      BY <2>3 DEF Status
    <2>5. Good([u EXCEPT !.status = s])
      BY <2>2, <2>4, StatusGood
    <2>6. [u EXCEPT !.status.c1 = @ \/ bit] = [u EXCEPT !.status = s]
      BY <2>3 DEF Units, Status
    <2> QED
      BY <2>1, <2>2, <2>5, <2>6, ExecInv
  <1>6. ASSUME NEW v \in Reals, FYL2X(v)
        PROVE  IInv'
    BY <1>2, <1>4, <1>6, SafePopGood, ExecInv DEF FYL2X
  <1>7. ASSUME NEW v \in Reals, FPATAN(v)
        PROVE  IInv'
    BY <1>2, <1>4, <1>7, SafePopGood, ExecInv DEF FPATAN
  <1>8. ASSUME NEW v \in Reals, NEW i \in {0, 1}, NEW j \in {0, 1}, Unary(i, j, v)
        PROVE  IInv'
    BY <1>2, <1>4, <1>8, ExecInv DEF Unary
  <1>9. ASSUME NEW v \in Reals, NEW i \in Index, NEW dest \in {0, i}, Arith(i, dest, v)
        PROVE  IInv'
    BY <1>2, <1>4, <1>9, ExecInv DEF Arith
  <1>10. ASSUME NEW v \in Reals, NEW i \in Index, NEW dest \in {0, i}, Divide(i, dest, v)
         PROVE  IInv'
    BY <1>2, <1>4, <1>10, ExecInv DEF Divide
  <1>11. ASSUME NEW v \in Reals, NEW i \in Index, ArithP(i, v)
         PROVE  IInv'
    BY <1>2, <1>4, <1>11, SafePopGood, ExecInv DEF ArithP
  <1>12. ASSUME NEW v \in Reals, NEW i \in Index, DivideP(i, v)
         PROVE  IInv'
    BY <1>2, <1>4, <1>12, SafePopGood, ExecInv DEF DivideP
  <1>13. ASSUME NEW i \in Index, FCOM(i) \/ FCOMP(i)
         PROVE  IInv'
    BY <1>3, <1>13, SafePopGood, ExecInv DEF FCOM, FCOMP
  <1>14. ASSUME NEW m \in Reals
         PROVE  Good(CheckOperands(Nth(Fetched, 0), St(unit, 0), m))
    BY <1>1, NthGood, CheckOperandsGood
  <1>15. ASSUME NEW m \in Reals, FCOMmem(m) \/ FCOMPmem(m)
         PROVE  IInv'
    BY <1>14, <1>15, SafePopGood, ExecInv DEF FCOMmem, FCOMPmem
  <1>16. ASSUME NEW m \in Reals, NEW v \in Reals, ArithMem(m, v)
         PROVE  IInv'
    <2>1. Good(Nth(Fetched, 0))
      BY <1>1, NthGood
    <2> QED
      BY <1>4, <1>16, <2>1, ExecInv DEF ArithMem
  <1>17. Good(SafePop(SafePop(Compared(1))))
    BY <1>3, SafePopGood
  <1>18. CASE FUCOMPP
    <2>1. Good(Throw(Fetched, "TypeError"))
      BY <1>1, ThrowGood DEF Traps
    <2> QED
      BY <1>18, <2>1, ExecInv DEF FUCOMPP
  <1>19. ASSUME NEW v \in Reals, NEW w \in Reals, FSINCOS(v, w)
         PROVE  IInv'
    <2>1. Good(SetNthValue(Nth(Fetched, 0), 0, v))
      BY <1>1, <1>4, NthGood
    <2> QED
      BY <1>19, <2>1, SafePushGood, ExecInv DEF FSINCOS
  <1>20. CASE FCOMPP
    BY <1>17, <1>20, ExecInv DEF FCOMPP
  <1> QED
    BY <1>5, <1>6, <1>7, <1>8, <1>9, <1>10, <1>11, <1>12, <1>13, <1>15, <1>16, <1>18, <1>19,
       <1>20 DEF Arithmetic

LEMMA StepInv == IInv /\ [Next]_vars => IInv'
  <1> SUFFICES ASSUME IInv, [Next]_vars PROVE IInv'
    OBVIOUS
  <1>1. CASE UNCHANGED vars
    BY <1>1, UnitKept, ImageKept DEF vars, IInv
  <1> QED
    BY <1>1, StackInv, ArithmeticInv, ControlInv DEF Next

LEMMA Inductive == Spec => []IInv
  BY InitInv, StepInv, PTL DEF Spec

-----------------------------------------------------------------------------
(* Action properties.                                                      *)

\* FSAVE writes the registers from st(0) on, with the tags as they lie in the file.
LEMMA SaveKeeps ==
  ASSUME IInv, FSAVE, unit.initialized, InUseIsDefined(unit), TopTracked(unit)
  PROVE  LiveImage(saved') = Live(unit)
  <1>1. unit \in Units /\ unit.stackPointer \in Index
    BY DEF IInv, Good, Units
  <1>2. saved'.status.top = unit.stackPointer
    BY <1>1 DEF FSAVE, Fetched, Units, Status, TopTracked
  <1>3. saved'.tags = unit.tags /\ saved'.stack = SavedRegisters(unit)
    BY DEF FSAVE
  <1>4. ASSUME NEW i \in Index
        PROVE  (IF saved'.tags[(saved'.status.top + i) % NRegs] = "EMPTY" THEN "empty"
                ELSE <<saved'.tags[(saved'.status.top + i) % NRegs], saved'.stack[i]>>)
               = (IF unit.tags[Phys(unit, i)] = "EMPTY" THEN "empty"
                  ELSE <<unit.tags[Phys(unit, i)], St(unit, i)>>)
    <2>1. saved'.tags[(saved'.status.top + i) % NRegs] = unit.tags[Phys(unit, i)]
      BY <1>2, <1>3 DEF Phys
    <2>2. Phys(unit, i) \in Index
      BY <1>1, PhysIndex, IndexInt
    <2>3. unit.tags[Phys(unit, i)] # "EMPTY" => St(unit, i) # "undefined"
      BY <2>2 DEF InUseIsDefined, St
    <2>4. saved'.stack[i] = Written(St(unit, i))
      BY <1>3 DEF SavedRegisters
    <2> QED
      BY <2>1, <2>3, <2>4 DEF Written
  <1> QED
    BY <1>4 DEF LiveImage, Live

\* FRSTOR puts what lies at i in the image at st(i) of the loaded top.
LEMMA RestoreGives ==
  ASSUME IInv, FRSTOR, unit.initialized
  PROVE  Live(unit') = LiveImage(saved)
  <1> DEFINE u   == Fetched
             top == saved.status.top
             stack == [r \in Index |-> saved.stack[(r - top) % NRegs]]
  <1>1. unit' = Restored(u, saved)
    BY DEF FRSTOR, Exec
  <1>2. u \in Units /\ u.initialized /\ saved \in Images /\ top \in Index
    <2>1. u \in Units
      BY FetchedGood DEF IInv, Good
    <2> QED
      BY <2>1 DEF IInv, Good, Fetched, Units, Images, Status
  <1> HIDE DEF u
  <1>3. /\ unit'.stackPointer = top /\ unit'.tags = saved.tags /\ unit'.stack = stack
    <2> DEFINE loaded == LoadEnv(u, saved)
    <2>1. /\ loaded.stackPointer = top /\ loaded.tags = saved.tags /\ loaded.initialized = u.initialized
          /\ "stack" \in DOMAIN loaded
      BY <1>2 DEF LoadEnv, Units
    <2>2. unit' = IF ~u.initialized THEN Throw(loaded, "TypeError")
                  ELSE [loaded EXCEPT !.stack =
                          [r \in Index |-> saved.stack[(r - loaded.stackPointer) % NRegs]]]
      BY <1>1 DEF Restored
    <2> HIDE DEF loaded, top
    <2>3. unit' = [loaded EXCEPT !.stack = stack]
      BY <1>2, <2>1, <2>2
    <2> HIDE DEF stack
    <2> QED
      BY <2>1, <2>3
  <1>4. ASSUME NEW i \in Index
        PROVE  St(unit', i) = saved.stack[i]
    <2>1. (top + i) % NRegs \in Index
      <3>1. top + i \in Int
        BY <1>2, X87Assumption DEF Index
      <3> QED
        BY <3>1, ModIndex
    <2>2. (((top + i) % NRegs) - top) % NRegs = i
      BY <1>2, CountedFromTop
    <2> QED
      BY <1>3, <2>1, <2>2 DEF St, Phys
  <1>5. ASSUME NEW i \in Index
        PROVE  unit'.tags[Phys(unit', i)] = saved.tags[(saved.status.top + i) % NRegs]
    BY <1>3 DEF Phys
  <1> QED
    BY <1>4, <1>5 DEF Live, LiveImage

LEMMA OverflowTold ==
  ASSUME IInv, NEW v \in Reals, FLD(v), unit.initialized,
         unit.tags[(unit.stackPointer - 1) % NRegs] # "EMPTY"
  PROVE  /\ unit'.status.c1 /\ unit'.status.sf /\ unit'.status.ie
         /\ unit'.trap = IF "OM" \in unit.control THEN "none" ELSE "stack"
  <1> DEFINE top   == (unit.stackPointer - 1) % NRegs
             moved == SetStackPointer(Fetched, unit.stackPointer - 1)
             fault == [moved EXCEPT !.status.c1 = TRUE, !.status.sf = TRUE,
                                    !.status.ie = TRUE, !.tags[top] = "VALID"]
             full  == [fault EXCEPT !.stack[top] = "inf"]
  <1>1. unit \in Units /\ unit.status \in Status
    BY DEF IInv, Good, Units
  <1>2. /\ moved.stackPointer = top /\ moved.tags = unit.tags /\ moved.trap = "none"
        /\ moved.control = unit.control
    BY <1>1 DEF SetStackPointer, Fetched, Units
  <1>3. moved \in Units /\ moved.status \in Status
    <2>1. Good(Fetched) /\ unit.stackPointer - 1 \in Int
      BY <1>1, FetchedGood, X87Assumption DEF IInv, Units, Index
    <2> QED
      BY <2>1, SetStackPointerGood DEF Good, Units
  <1>4. unit' = SafePush(Fetched, v)
    BY DEF FLD, Exec
  <1>5. unit' = Raise(full, "OM", "stack")
    <2>1. /\ Fetched.trap = "none" /\ Fetched.initialized
          /\ Fetched.stackPointer = unit.stackPointer
      BY <1>1 DEF Fetched, Units
    <2>2. Fetched.tags = unit.tags
      BY <1>1 DEF Fetched, Units
    <2> QED
      BY <1>2, <1>4, <2>1, <2>2 DEF SafePush
  <1> HIDE DEF moved, top
  <1>6. /\ full.status.c1 /\ full.status.sf /\ full.status.ie
        /\ full.trap = "none" /\ full.control = unit.control /\ DOMAIN full = DOMAIN moved
    BY <1>2, <1>3 DEF Units, Status
  <1>7. "trap" \in DOMAIN moved
    BY <1>3 DEF Units
  <1> HIDE DEF full
  <1>8. Throw(full, "stack").status = full.status /\ Throw(full, "stack").trap = "stack"
    BY <1>6, <1>7 DEF Throw
  <1> QED
    BY <1>5, <1>6, <1>8 DEF Raise

\* A unit that masks everything and was stopped by nothing; a register operation
\* leaves it such a unit.
Quiet(u) == Good(u) /\ u.initialized /\ u.control = Masks /\ u.trap = "none"

LEMMA RaiseQuiet ==
  ASSUME NEW u, Quiet(u), NEW mask \in Masks, NEW t \in Traps
  PROVE  Raise(u, mask, t) = u
  BY DEF Quiet, Raise

LEMMA NthQuiet == ASSUME NEW u, Quiet(u), NEW i \in Int PROVE Quiet(Nth(u, i))
  BY NthGood DEF Quiet, Good, Nth, NeedsStack, Units

LEMMA SetNthValueQuiet ==
  ASSUME NEW u, Quiet(u), NEW i \in Int, NEW v \in Values
  PROVE  Quiet(SetNthValue(u, i, v))
  BY SetNthValueGood DEF Quiet, Good, SetNthValue, Units

LEMMA SafePopQuiet == ASSUME NEW u, Quiet(u) PROVE Quiet(SafePop(u))
  <1> DEFINE moved  == SetStackPointer([u EXCEPT !.tags[u.stackPointer] = "EMPTY"], u.stackPointer + 1)
             fault  == [moved EXCEPT !.status.c1 = FALSE, !.status.sf = TRUE, !.status.ie = TRUE]
             popped == IF u.tags[u.stackPointer] = "EMPTY" THEN Raise(fault, "UM", "stack")
                       ELSE moved
             fields == {"initialized", "stack", "stackPointer", "tags", "status", "control", "trap"}
  <1>1. Good(SafePop(u)) /\ DOMAIN u = fields /\ u.initialized /\ u.control = Masks /\ u.trap = "none"
    BY SafePopGood DEF Quiet, Good, Units
  <1>2. DOMAIN moved = fields /\ moved.initialized /\ moved.control = Masks /\ moved.trap = "none"
    BY <1>1 DEF SetStackPointer
  <1> HIDE DEF moved
  <1>3. fault.initialized /\ fault.control = Masks /\ fault.trap = "none"
    BY <1>2
  <1> HIDE DEF fault
  <1>4. popped.initialized /\ popped.control = Masks /\ popped.trap = "none"
    BY <1>2, <1>3 DEF Raise, Masks
  <1> HIDE DEF popped
  <1>5. SafePop(u) = popped
    BY <1>1, <1>4 DEF SafePop, NeedsStack, popped, fault, moved
  <1> QED
    BY <1>1, <1>4, <1>5 DEF Quiet

LEMMA SafePushQuiet == ASSUME NEW u, Quiet(u), NEW v \in Values PROVE Quiet(SafePush(u, v))
  <1> DEFINE moved  == SetStackPointer(u, u.stackPointer - 1)
             top    == moved.stackPointer
             fault  == [moved EXCEPT !.status.c1 = TRUE, !.status.sf = TRUE,
                                     !.status.ie = TRUE, !.tags[top] = "VALID"]
             full   == [fault EXCEPT !.stack[top] = "inf"]
             pushed == [moved EXCEPT !.status.c1 = FALSE, !.tags[top] = TagOf(v)]
             stored == [pushed EXCEPT !.stack[top] = v]
             fields == {"initialized", "stack", "stackPointer", "tags", "status", "control", "trap"}
  <1>1. /\ Good(SafePush(u, v)) /\ DOMAIN u = fields
        /\ u.initialized /\ u.control = Masks /\ u.trap = "none"
    BY SafePushGood DEF Quiet, Good, Units
  <1>2. DOMAIN moved = fields /\ moved.initialized /\ moved.control = Masks /\ moved.trap = "none"
    BY <1>1 DEF SetStackPointer
  <1>3. /\ u.tags[top] # "EMPTY" => SafePush(u, v) = Raise(full, "OM", "stack")
        /\ u.tags[top] = "EMPTY" => SafePush(u, v) = stored
    BY <1>1 DEF SafePush
  <1> HIDE DEF moved, top
  <1>4. full.initialized /\ full.control = Masks /\ full.trap = "none"
    BY <1>2
  <1>5. stored.initialized /\ stored.control = Masks /\ stored.trap = "none"
    BY <1>2
  <1> HIDE DEF full, stored
  <1> QED
    BY <1>1, <1>3, <1>4, <1>5 DEF Quiet, Raise, Masks

LEMMA CheckOperandsQuiet ==
  ASSUME NEW u, Quiet(u), NEW a, NEW b
  PROVE  Quiet(CheckOperands(u, a, b))
  <1>1. Good(CheckOperands(u, a, b))
    BY CheckOperandsGood DEF Quiet
  <1> QED
    BY <1>1 DEF Quiet, Good, CheckOperands, Raise, Masks, Units

LEMMA CheckDivisionQuiet ==
  ASSUME NEW u, Quiet(u), NEW a, NEW b
  PROVE  Quiet(CheckDivision(u, a, b))
  <1>1. Good(CheckDivision(u, a, b))
    BY CheckDivisionGood DEF Quiet
  <1> QED
    BY <1>1 DEF Quiet, Good, CheckDivision, CheckOperands, Raise, Masks, Units

LEMMA FetchedQuiet ==
  ASSUME Good(unit), AllMasked
  PROVE  Quiet(Fetched)
  <1>1. Good(Fetched)
    BY FetchedGood
  <1> QED
    BY <1>1 DEF Quiet, AllMasked, Good, Fetched, Units

LEMMA MaskedStack ==
  ASSUME IInv, AllMasked, Stack
  PROVE  unit'.trap = "none"
  <1> USE IndexInt, ValueTypes
  <1>1. Quiet(Fetched) /\ unit \in Units /\ St(unit, 0) \in Values
    BY FetchedQuiet, StValue DEF IInv, Good
  <1>2. Quiet(Nth(Fetched, 0)) /\ Quiet(SafePop(Fetched)) /\ Quiet(SafePop(Nth(Fetched, 0)))
    BY <1>1, NthQuiet, SafePopQuiet
  <1>3. ASSUME NEW v \in Values PROVE Quiet(SafePush(Fetched, v))
    BY <1>1, SafePushQuiet
  <1>4. ASSUME NEW v \in Reals, FLD(v) \/ FIST(v) \/ FISTP(v) PROVE unit'.trap = "none"
    BY <1>2, <1>3, <1>4 DEF FLD, FIST, FISTP, Exec, Store, Quiet
  <1>5. CASE FST \/ FSTP \/ FXAM
    BY <1>2, <1>5 DEF FST, FSTP, FXAM, Exec, Store, Quiet
  <1>6. CASE FINCSTP
    <2> DEFINE u == Fetched
    <2>1. PICK d \in {-1, 1} : unit' = SetStackPointer(u, unit.stackPointer + d)
      BY <1>6 DEF FINCSTP, Exec
    <2>2. u.trap = "none" /\ "trap" \in DOMAIN u
      BY <1>1 DEF Quiet, Good, Units
    <2> HIDE DEF u
    <2> QED
      BY <2>1, <2>2 DEF SetStackPointer
  <1>7. ASSUME NEW i \in Index, FLDst(i) \/ FFREE(i) PROVE unit'.trap = "none"
    <2> DEFINE u == Fetched
    <2>1. u.trap = "none" /\ "trap" \in DOMAIN u
      BY <1>1 DEF Quiet, Good, Units
    <2>2. unit' = [u EXCEPT !.tags[i] = "EMPTY"] \/ unit' = SafePush(u, "undefined")
      BY <1>7 DEF FLDst, FFREE, Exec
    <2>3. Quiet(SafePush(u, "undefined"))
      BY <1>3
    <2> HIDE DEF u
    <2> QED
      BY <2>1, <2>2, <2>3 DEF Quiet
  <1>8. ASSUME NEW i \in Index, FSTst(i) \/ FSTPst(i) PROVE unit'.trap = "none"
    <2> DEFINE w == SetNthValue(Nth(Fetched, 0), i, St(unit, 0))
    <2>1. Quiet(w)
      BY <1>1, <1>2, SetNthValueQuiet
    <2>2. unit' = w \/ unit' = SafePop(w)
      BY <1>8 DEF FSTst, FSTPst, Exec
    <2> HIDE DEF w
    <2> QED
      BY <2>1, <2>2, SafePopQuiet DEF Quiet
  <1>9. ASSUME NEW i \in Index, FXCH(i) PROVE unit'.trap = "none"
    <2> DEFINE first == SetNthValue(Nth2(Fetched, 0, i), 0, St(unit, i))
               last  == SetNthValue(first, i, St(unit, 0))
    <2>1. Quiet(Nth2(Fetched, 0, i))
      BY <1>2, NthQuiet DEF Nth2
    <2>2. St(unit, i) \in Values
      BY <1>1, StValue
    <2>3. Quiet(first)
      BY <2>1, <2>2, SetNthValueQuiet
    <2>4. unit' = last
      BY <1>9 DEF FXCH, Exec
    <2> HIDE DEF first
    <2>5. Quiet(last)
      BY <1>1, <2>3, SetNthValueQuiet
    <2> QED
      BY <2>4, <2>5 DEF Quiet
  <1> QED
    BY <1>4, <1>5, <1>6, <1>7, <1>8, <1>9 DEF Stack

LEMMA MaskedArithmetic ==
  ASSUME IInv, AllMasked, "FUCOMPP" \notin uses, Arithmetic
  PROVE  unit'.trap = "none"
  <1> USE IndexInt, ValueTypes
  <1>1. Quiet(Fetched)
    BY FetchedQuiet DEF IInv
  <1>2. ASSUME NEW i \in Int, NEW j \in Int
        PROVE  Quiet(Nth(Fetched, i)) /\ Quiet(Nth2(Fetched, i, j))
    BY <1>1, NthQuiet DEF Nth2
  <1>3. ASSUME NEW i \in Index
        PROVE  Quiet(Compared(i)) /\ Quiet(SafePop(Compared(i)))
    BY <1>2, CheckOperandsQuiet, SafePopQuiet DEF Compared
  <1>4. ASSUME NEW u, Quiet(u), NEW a, NEW b, NEW i \in Int, NEW v \in Reals
        PROVE  /\ Quiet(SetNthValue(u, i, v))
               /\ Quiet(SetNthValue(CheckOperands(u, a, b), i, v))
               /\ Quiet(SetNthValue(CheckDivision(u, a, b), i, v))
    BY <1>4, SetNthValueQuiet, CheckOperandsQuiet, CheckDivisionQuiet
  <1>5. ASSUME NEW u, Quiet(u), Exec(u) \/ Exec(SafePop(u)) PROVE unit'.trap = "none"
    BY <1>5, SafePopQuiet DEF Exec, Quiet
  <1>6. ASSUME NEW v \in Reals, FPREM(v) PROVE unit'.trap = "none"
    <2> DEFINE u == SetNthValue(Nth2(Fetched, 0, 1), 0, v)
    <2>1. PICK bit \in BOOLEAN :
            unit' = IF u.trap = "none" THEN [u EXCEPT !.status.c1 = @ \/ bit] ELSE u
      BY <1>6 DEF FPREM, Exec
    <2>2. Quiet(u)
      BY <1>2, <1>4
    <2> HIDE DEF u
    <2>3. u.trap = "none" /\ "trap" \in DOMAIN u
      BY <2>2 DEF Quiet, Good, Units
    <2> QED
      BY <2>1, <2>3
  <1>7. ASSUME NEW v \in Reals, FYL2X(v) \/ FPATAN(v) PROVE unit'.trap = "none"
    BY <1>2, <1>4, <1>5, <1>7 DEF FYL2X, FPATAN
  <1>8. ASSUME NEW v \in Reals, NEW i \in {0, 1}, NEW j \in {0, 1}, Unary(i, j, v)
        PROVE  unit'.trap = "none"
    BY <1>2, <1>4, <1>5, <1>8 DEF Unary
  <1>9. ASSUME NEW v \in Reals, NEW i \in Index, NEW dest \in {0, i},
               Arith(i, dest, v) \/ Divide(i, dest, v)
        PROVE  unit'.trap = "none"
    <2>1. dest \in Int
      OBVIOUS
    <2> QED
      BY <1>2, <1>4, <1>5, <1>9, <2>1 DEF Arith, Divide
  <1>10. ASSUME NEW v \in Reals, NEW i \in Index, ArithP(i, v) \/ DivideP(i, v)
         PROVE  unit'.trap = "none"
    BY <1>2, <1>4, <1>5, <1>10 DEF ArithP, DivideP
  <1>11. ASSUME NEW i \in Index, FCOM(i) \/ FCOMP(i) PROVE unit'.trap = "none"
    BY <1>3, <1>5, <1>11 DEF FCOM, FCOMP
  <1>12. ASSUME NEW m \in Reals, FCOMmem(m) \/ FCOMPmem(m) PROVE unit'.trap = "none"
    <2>1. Quiet(CheckOperands(Nth(Fetched, 0), St(unit, 0), m))
      BY <1>2, CheckOperandsQuiet
    <2> QED
      BY <1>5, <1>12, <2>1 DEF FCOMmem, FCOMPmem
  <1>13. ASSUME NEW m \in Reals, NEW v \in Reals, ArithMem(m, v) PROVE unit'.trap = "none"
    BY <1>2, <1>4, <1>5, <1>13 DEF ArithMem
  <1>14. ASSUME NEW v \in Reals, NEW w \in Reals, FSINCOS(v, w) PROVE unit'.trap = "none"
    <2>1. Quiet(SetNthValue(Nth(Fetched, 0), 0, v))
      BY <1>2, <1>4
    <2>2. Quiet(SafePush(SetNthValue(Nth(Fetched, 0), 0, v), w))
      BY <2>1, SafePushQuiet
    <2> QED
      BY <1>5, <1>14, <2>2 DEF FSINCOS
  <1>15. ASSUME FCOMPP PROVE unit'.trap = "none"
    BY <1>3, <1>5, <1>15 DEF FCOMPP
  <1> QED
    BY <1>6, <1>7, <1>8, <1>9, <1>10, <1>11, <1>12, <1>13, <1>14, <1>15 DEF Arithmetic, FUCOMPP

LEMMA MaskedControl ==
  ASSUME IInv, AllMasked, Control
  PROVE  unit'.trap = "none"
  <1> DEFINE u == Fetched
  <1>1. Quiet(u) /\ unit.initialized
    BY FetchedQuiet DEF IInv, AllMasked
  <1> HIDE DEF u
  <1>2. u.initialized /\ u.trap = "none" /\ {"trap", "stack"} \subseteq DOMAIN u
    BY <1>1 DEF Quiet, Good, Units
  <1>3. CASE FINIT \/ FNINIT \/ FSTENV
    BY <1>2, <1>3 DEF FINIT, FNINIT, FSTENV, Exec, ResetUnit, u
  <1>4. CASE FCLEX \/ FNCLEX
    <2>1. PICK status : unit' = [u EXCEPT !.status = status] \/ unit' = [u EXCEPT !.status.ze = FALSE]
      BY <1>4 DEF FCLEX, FNCLEX, Exec, u
    <2> QED
      BY <1>2, <2>1
  <1>5. ASSUME NEW masks \in SUBSET Masks, FLDCW(masks) PROVE unit'.trap = "none"
    <2>1. unit' = [u EXCEPT !.control = masks]
      BY <1>5 DEF FLDCW, Exec, u
    <2> QED
      BY <1>2, <2>1
  <1>6. ASSUME NEW image PROVE LoadEnv(u, image).trap = "none" /\ Restored(u, image).trap = "none"
    BY <1>2 DEF LoadEnv, Restored
  <1>7. CASE FLDENV \/ FRSTOR
    BY <1>6, <1>7 DEF FLDENV, FRSTOR, Exec, u
  <1>8. CASE FSAVE
    BY <1>1, <1>2, <1>8 DEF FSAVE, ResetUnit, u
  <1> QED
    BY <1>3, <1>4, <1>5, <1>7, <1>8 DEF Control

-----------------------------------------------------------------------------
(* Theorems.                                                               *)

\* The pointer never leaves the file, and registers, tags, status, environment
\* and images always hold what they can: setStackPointer, nth and frstor index
\* the file by (sp + i) & 7 whatever was pushed, popped or loaded before.
THEOREM TypeCorrect == Spec => []TypeOK
  <1>1. IInv => TypeOK
    BY DEF IInv, Good, TypeOK
  <1> QED
    BY <1>1, Inductive, PTL

\* The top in the status word is the stack pointer of the unit, for a program
\* without FCLEX: every path that moves one (push, pop, fault, FINCSTP, FLDENV,
\* FRSTOR, FSAVE's reset) moves the other.
THEOREM TopsAlwaysAgree == Spec => []TopsAgree
  <1>1. IInv => TopsAgree
    BY DEF IInv, Good, TopGood, TopsAgree
  <1> QED
    BY <1>1, Inductive, PTL

\* Even with FCLEX, which clears the whole status word, the top a program reads
\* is the stack pointer or zero.
THEOREM TopIsNeverStray == Spec => []TopNeverStray
  <1>1. IInv => TopNeverStray
    BY DEF IInv, Good, TopGood, TopNeverStray
  <1> QED
    BY <1>1, Inductive, PTL

\* A tag is true of the register it belongs to, through pushes onto a full
\* stack, masked and thrown exceptions and a FSAVE restored at another top.
THEOREM TagsAlwaysTruthful == Spec => []TagsTruthful
  <1>1. IInv => TagsTruthful
    BY DEF IInv, Good, TagsGood, TagsTruthful
  <1> QED
    BY <1>1, Inductive, PTL

\* A task switch gives a program its stack back, wherever the top was at FSAVE
\* and at FRSTOR: fsave writes and frstor reads the registers from st(0) on while
\* the tags stay in the order of the file, and the two orders are put together
\* again by the top in the status word.
THEOREM TaskSwitchesKeepStack == Spec => TaskSwitchKeepsStack
  <1>1. IInv /\ [Next]_vars
          => [FSAVE /\ unit.initialized /\ InUseIsDefined(unit) /\ TopTracked(unit)
                => LiveImage(saved') = Live(unit)]_vars
    BY SaveKeeps
  <1>2. IInv /\ [Next]_vars => [FRSTOR /\ unit.initialized => Live(unit') = LiveImage(saved)]_vars
    BY RestoreGives
  <1> QED
    BY <1>1, <1>2, Inductive, PTL DEF Spec, TaskSwitchKeepsStack, SaveKeepsStack, RestoreGivesBack

\* safePush onto a live register always reports it and throws what is not masked,
\* and once everything is masked no instruction but FUCOMPP throws, whatever the
\* program did to the stack, the tags or the environment before.
THEOREM ExceptionsAreAlwaysTold == Spec => ExceptionsAreTold
  <1>1. IInv /\ [Next]_vars
          => [\A v \in Reals :
                FLD(v) /\ unit.initialized /\ unit.tags[(unit.stackPointer - 1) % NRegs] # "EMPTY"
                  => /\ unit'.status.c1 /\ unit'.status.sf /\ unit'.status.ie
                     /\ unit'.trap = IF "OM" \in unit.control THEN "none" ELSE "stack"]_vars
    BY OverflowTold
  <1>2. IInv /\ [Next]_vars => [AllMasked /\ "FUCOMPP" \notin uses => unit'.trap = "none"]_vars
    BY MaskedStack, MaskedArithmetic, MaskedControl DEF Next
  <1> QED
    BY <1>1, <1>2, Inductive, PTL DEF Spec, ExceptionsAreTold, OverflowReported, MaskedNeverThrows

-----------------------------------------------------------------------------
(* The refinement: to a program that keeps the discipline of the stack the *)
(* unit is FpuStack, for every number of registers and every set of values.*)
(* Holds(u, s) says that the unit u holds the stack s; each register       *)
(* operation has a lemma that tells what stack it leaves, and an           *)
(* instruction is proved by following its operations.                      *)

\* From top on, h registers are in use and no others.
Filled(tags, top, h) ==
  \A i \in Index : (tags[(top + i) % NRegs] # "EMPTY") <=> i < h

Stacks == {s \in Seq(Reals) : Len(s) <= NRegs}

\* The unit holds the stack s, its exceptions are masked and it met none of
\* those that a stack has.
Holds(u, s) ==
  /\ u \in Units /\ u.initialized /\ u.trap = "none" /\ u.control = Masks
  /\ ~u.status.sf /\ TopTracked(u)
  /\ s \in Stacks
  /\ Filled(u.tags, u.stackPointer, Len(s))
  /\ \A i \in 1 .. Len(s) : St(u, i - 1) = s[i]

\* So does an image, in the order of the stack.
ImageHolds(image, s) ==
  /\ image \in Images /\ image.control = Masks /\ ~image.status.sf
  /\ s \in Stacks
  /\ Filled(image.tags, image.status.top, Len(s))
  /\ \A i \in 1 .. Len(s) : image.stack[i - 1] = s[i]

\* The inductive invariant.
DInv ==
  /\ mem \in Reals
  /\ unit.initialized \in BOOLEAN
  /\ unit.initialized => Holds(unit, Operands)
  /\ saved.written \in BOOLEAN
  /\ saved.written => ImageHolds(saved, Kept)

-----------------------------------------------------------------------------
(* How high a stack is.                                                    *)

\* Registers in use that lie next to each other are counted from the top.
LEMMA FilledCount ==
  ASSUME NEW tags, NEW top \in Index, NEW h \in 0 .. NRegs, Filled(tags, top, h)
  PROVE  /\ Cardinality({r \in Index : tags[r] # "EMPTY"}) = h
         /\ {r \in Index : tags[r] # "EMPTY"} = {(top + i) % NRegs : i \in 0 .. h - 1}
  <1> DEFINE S == {r \in Index : tags[r] # "EMPTY"}
             T == {(top + i) % NRegs : i \in 0 .. h - 1}
             f == [i \in 0 .. h - 1 |-> (top + i) % NRegs]
  <1>1. 0 .. h - 1 \subseteq Index /\ top \in Int /\ NRegs \in Nat
    BY X87Assumption DEF Index
  <1>2. T \subseteq S
    BY <1>1, ModIndex DEF Filled
  <1>3. ASSUME NEW r \in S PROVE r \in T
    <2>1. r \in Index /\ tags[r] # "EMPTY" /\ r - top \in Int
      BY <1>1 DEF Index
    <2>2. PICK i \in Index : i = (r - top) % NRegs
      BY <2>1, ModIndex
    <2>3. (top + i) % NRegs = r
      BY <2>1, <2>2, PhysInverse
    <2>4. i < h
      BY <2>1, <2>2, <2>3 DEF Filled
    <2>5. i \in 0 .. h - 1
      BY <2>2, <2>4, SMT DEF Index
    <2> QED
      BY <2>3, <2>5
  <1>4. ASSUME NEW i \in Index, NEW j \in Index, (top + i) % NRegs = (top + j) % NRegs
        PROVE  i = j
    BY <1>4, X87Assumption, ModSmall, ModOnce, SMT DEF Index
  <1>5. f \in [0 .. h - 1 -> S]
    BY <1>2
  <1>6. f \in Bijection(0 .. h - 1, S)
    <2>1. \A i, j \in 0 .. h - 1 : f[i] = f[j] => i = j
      BY <1>1, <1>4
    <2>2. \A r \in S : \E i \in 0 .. h - 1 : f[i] = r
      BY <1>3
    <2> QED
      BY <1>5, <2>1, <2>2 DEF Bijection, Injection, Surjection, IsInjective
  <1>7. Cardinality(0 .. h - 1) = h /\ IsFiniteSet(0 .. h - 1)
    BY FS_Interval, SMT
  <1>8. Cardinality(S) = Cardinality(0 .. h - 1)
    BY <1>6, <1>7, FS_Bijection DEF ExistsBijection
  <1> QED
    BY <1>2, <1>3, <1>7, <1>8

\* What a unit holds, read register by register, is the stack.
LEMMA HoldsRead ==
  ASSUME NEW u, NEW s, Holds(u, s)
  PROVE  /\ Cardinality({r \in Index : u.tags[r] # "EMPTY"}) = Len(s)
         /\ {r \in Index : u.tags[r] # "EMPTY"} = {Phys(u, i) : i \in 0 .. Len(s) - 1}
         /\ [i \in 1 .. Len(s) |-> St(u, i - 1)] = s
  <1>1. u.stackPointer \in Index /\ Len(s) \in 0 .. NRegs /\ s \in Seq(Reals)
    BY X87Assumption DEF Holds, Units, Stacks
  <1>2. s = [i \in 1 .. Len(s) |-> s[i]]
    BY <1>1
  <1> QED
    BY <1>1, <1>2, FilledCount DEF Holds, Phys

LEMMA ImageHoldsRead ==
  ASSUME NEW image, NEW s, ImageHolds(image, s)
  PROVE  /\ Cardinality({r \in Index : image.tags[r] # "EMPTY"}) = Len(s)
         /\ [i \in 1 .. Len(s) |-> image.stack[i - 1]] = s
  <1>1. image.status.top \in Index /\ Len(s) \in 0 .. NRegs /\ s \in Seq(Reals)
    BY X87Assumption DEF ImageHolds, Images, Status, Stacks
  <1>2. s = [i \in 1 .. Len(s) |-> s[i]]
    BY <1>1
  <1> QED
    BY <1>1, <1>2, FilledCount DEF ImageHolds

-----------------------------------------------------------------------------
(* What stack each register operation leaves.                              *)

\* The registers behind a top that moved by one.
LEMMA TopBack ==
  ASSUME NEW top \in Index, NEW i \in Index, i > 0
  PROVE  (((top - 1) % NRegs) + i) % NRegs = (top + (i - 1)) % NRegs
  <1>1. top \in 0 .. NRegs - 1 /\ i \in 1 .. NRegs - 1 /\ NRegs \in Nat
    BY X87Assumption DEF Index
  <1>2. CASE top = 0
    <2>1. (top - 1) % NRegs = NRegs - 1
      BY <1>1, <1>2, ModNegative
    <2>2. (NRegs - 1 + i) % NRegs = i - 1 /\ (top + (i - 1)) % NRegs = i - 1
      BY <1>1, <1>2, ModOnce, ModSmall DEF Index
    <2> QED
      BY <2>1, <2>2
  <1>3. CASE top > 0
    <2>1. (top - 1) % NRegs = top - 1
      BY <1>1, <1>3, ModSmall DEF Index
    <2> QED
      BY <1>1, <2>1
  <1> QED
    BY <1>1, <1>2, <1>3

LEMMA TopOn ==
  ASSUME NEW top \in Index, NEW i \in Index
  PROVE  (((top + 1) % NRegs) + i) % NRegs = IF i = NRegs - 1 THEN top ELSE (top + (i + 1)) % NRegs
  <1>1. top \in 0 .. NRegs - 1 /\ i \in 0 .. NRegs - 1 /\ NRegs \in Nat
    BY X87Assumption DEF Index
  <1>2. CASE top = NRegs - 1
    <2>1. (top + 1) % NRegs = 0 /\ (0 + i) % NRegs = i
      BY <1>1, <1>2, ModOnce, ModSmall DEF Index
    <2>2. i # NRegs - 1 => (top + (i + 1)) % NRegs = i
      BY <1>1, <1>2, ModOnce
    <2> QED
      BY <1>1, <1>2, <2>1, <2>2
  <1>3. CASE top # NRegs - 1
    <2>1. (top + 1) % NRegs = top + 1
      BY <1>1, <1>3, ModSmall DEF Index
    <2>2. i = NRegs - 1 => (top + 1 + i) % NRegs = top
      BY <1>1, <1>3, ModOnce
    <2> QED
      BY <1>1, <2>1, <2>2
  <1> QED
    BY <1>2, <1>3

\* Different st(i) are different registers.
LEMMA PhysDiffer ==
  ASSUME NEW top \in Index, NEW i \in Index, NEW j \in Index,
         (top + i) % NRegs = (top + j) % NRegs
  PROVE  i = j
  BY X87Assumption, ModSmall, ModOnce, SMT DEF Index

\* A unit of which registers, tags, top and status were replaced.
Rebuilt(u, stack, sp, tags, status) ==
  [u EXCEPT !.stack = stack, !.stackPointer = sp, !.tags = tags, !.status = status]

LEMMA Built ==
  ASSUME NEW u \in Units, NEW stack \in [Index -> Values], NEW sp \in Index,
         NEW tags \in [Index -> Tags], NEW status \in Status
  PROVE  LET w == Rebuilt(u, stack, sp, tags, status) IN
         /\ w \in Units /\ w.stack = stack /\ w.stackPointer = sp /\ w.tags = tags
         /\ w.status = status /\ w.initialized = u.initialized /\ w.control = u.control
         /\ w.trap = u.trap
  BY DEF Units, Rebuilt

LEMMA HoldsType ==
  ASSUME NEW u, NEW s, Holds(u, s)
  PROVE  /\ u \in Units /\ u.stack \in [Index -> Values] /\ u.stackPointer \in Index
         /\ u.tags \in [Index -> Tags] /\ u.status \in Status
         /\ s \in Seq(Reals) /\ Len(s) \in 0 .. NRegs
  BY X87Assumption DEF Holds, Units, Stacks

LEMMA HoldsTag ==
  ASSUME NEW u, NEW s, Holds(u, s), NEW i \in Index
  PROVE  Phys(u, i) \in Index /\ ((u.tags[Phys(u, i)] # "EMPTY") <=> i < Len(s))
  <1>1. Phys(u, i) \in Index
    BY HoldsType, IndexInt, PhysIndex
  <1> QED
    BY <1>1 DEF Holds, Filled, Phys

LEMMA RealTag == ASSUME NEW v \in Reals PROVE TagOf(v) # "EMPTY" /\ TagOf(v) \in Tags /\ v \in Values
  BY X87Assumption, TagOfType DEF TagOf, Values

\* Only the flags of the status have changed.
LEMMA FlaggedHolds ==
  ASSUME NEW u, NEW s, Holds(u, s), NEW status \in Status, status.top = u.status.top, ~status.sf
  PROVE  Holds([u EXCEPT !.status = status], s)
  <1> DEFINE w == [u EXCEPT !.status = status]
  <1>1. w = Rebuilt(u, u.stack, u.stackPointer, u.tags, status)
    BY HoldsType DEF Units, Rebuilt
  <1> HIDE DEF w
  <1>2. /\ w \in Units /\ w.stack = u.stack /\ w.stackPointer = u.stackPointer
        /\ w.tags = u.tags /\ w.status = status /\ w.initialized = u.initialized
        /\ w.control = u.control /\ w.trap = u.trap
    BY <1>1, HoldsType, Built
  <1>3. Holds(w, s)
    BY <1>2 DEF Holds, TopTracked, St, Phys
  <1> QED
    BY <1>3 DEF w

\* nth of a register in use only reads.
LEMMA NthHolds ==
  ASSUME NEW u, NEW s, Holds(u, s), NEW i \in 0 .. Len(s) - 1
  PROVE  Nth(u, i) = u /\ St(u, i) = s[i + 1] /\ s[i + 1] \in Reals /\ i \in Index /\ i + 1 \in 1 .. Len(s)
  <1>1. i \in Index /\ i < Len(s) /\ i + 1 \in 1 .. Len(s) /\ (i + 1) - 1 = i
    BY HoldsType, X87Assumption DEF Index
  <1>2. u.tags[Phys(u, i)] # "EMPTY"
    BY <1>1 DEF Holds, Filled, Phys
  <1>3. [u EXCEPT !.status.sf = @ \/ u.tags[Phys(u, i)] = "EMPTY"] = u
    <2>1. u \in Units /\ u.status \in Status /\ u.status.sf = FALSE
      BY HoldsType DEF Holds, Status
    <2>2. (u.status.sf \/ u.tags[Phys(u, i)] = "EMPTY") = FALSE
      BY <1>2, <2>1
    <2>3. [u.status EXCEPT !.sf = FALSE] = u.status
      BY <2>1 DEF Status
    <2> QED
      BY <2>1, <2>2, <2>3 DEF Units
  <1>4. Nth(u, i) = u
    BY <1>3 DEF Nth, NeedsStack, Holds
  <1>5. St(u, i) = s[i + 1]
    BY <1>1 DEF Holds
  <1>6. s[i + 1] \in Reals
    BY <1>1, HoldsType
  <1> QED
    BY <1>1, <1>4, <1>5, <1>6

\* setNthValue of a register in use replaces an element.
LEMMA SetNthValueHolds ==
  ASSUME NEW u, NEW s, Holds(u, s), NEW i \in 0 .. Len(s) - 1, NEW v \in Reals
  PROVE  Holds(SetNthValue(u, i, v), [s EXCEPT ![i + 1] = v])
  <1> DEFINE w == SetNthValue(u, i, v)
             t == [s EXCEPT ![i + 1] = v]
             r == Phys(u, i)
  <1>1. i \in Index /\ r \in Index /\ Len(s) <= NRegs /\ u.tags[r] # "EMPTY"
    <2>1. i \in Index /\ Len(s) <= NRegs /\ i < Len(s)
      BY HoldsType, X87Assumption DEF Index
    <2> QED
      BY <2>1, HoldsTag
  <1>2. w = Rebuilt(u, [u.stack EXCEPT ![r] = v], u.stackPointer,
                    [u.tags EXCEPT ![r] = TagOf(v)], u.status)
    BY <1>1, HoldsType DEF SetNthValue, Holds, Units, Rebuilt
  <1> HIDE DEF w
  <1>3. /\ w \in Units /\ w.stack = [u.stack EXCEPT ![r] = v] /\ w.stackPointer = u.stackPointer
        /\ w.tags = [u.tags EXCEPT ![r] = TagOf(v)] /\ w.status = u.status
        /\ w.initialized = u.initialized /\ w.control = u.control /\ w.trap = u.trap
    <2> DEFINE stack == [u.stack EXCEPT ![r] = v]
               tags  == [u.tags EXCEPT ![r] = TagOf(v)]
    <2>1. /\ stack \in [Index -> Values] /\ tags \in [Index -> Tags]
          /\ u \in Units /\ u.stackPointer \in Index /\ u.status \in Status
          /\ w = Rebuilt(u, stack, u.stackPointer, tags, u.status)
      BY <1>2, HoldsType, RealTag
    <2> HIDE DEF stack, tags
    <2>2. /\ w \in Units /\ w.stack = stack /\ w.stackPointer = u.stackPointer /\ w.tags = tags
          /\ w.status = u.status /\ w.initialized = u.initialized /\ w.control = u.control
          /\ w.trap = u.trap
      BY <2>1, Built
    <2> QED
      BY <2>2 DEF stack, tags
  <1>4. t \in Stacks /\ Len(t) = Len(s)
    BY HoldsType DEF Stacks
  <1>5. Filled(w.tags, w.stackPointer, Len(t))
    <2> SUFFICES ASSUME NEW j \in Index
                 PROVE  (w.tags[Phys(u, j)] # "EMPTY") <=> j < Len(s)
      BY <1>3, <1>4 DEF Filled, Phys
    <2>1. Phys(u, j) \in Index /\ ((u.tags[Phys(u, j)] # "EMPTY") <=> j < Len(s))
      BY HoldsTag
    <2>2. w.tags[Phys(u, j)] = IF Phys(u, j) = r THEN TagOf(v) ELSE u.tags[Phys(u, j)]
      BY <1>3, <2>1, HoldsType
    <2> QED
      BY <1>1, <2>1, <2>2, RealTag
  <1>6. ASSUME NEW k \in 1 .. Len(t) PROVE St(w, k - 1) = t[k]
    <2>1. k - 1 \in Index /\ Phys(u, k - 1) \in Index /\ St(u, k - 1) = s[k] /\ Phys(w, k - 1) = Phys(u, k - 1)
      <3>1. k - 1 \in Index
        BY <1>4, <1>1, X87Assumption DEF Index
      <3> QED
        BY <3>1, <1>3, <1>4, HoldsTag DEF Holds, Phys
    <2>2. CASE k = i + 1
      BY <1>3, <1>4, <2>1, <2>2, HoldsType DEF St
    <2>3. CASE k # i + 1
      <3>1. Phys(u, k - 1) # r
        BY <1>1, <2>1, <2>3, HoldsType, PhysDiffer DEF Phys
      <3>2. t[k] = s[k]
        BY <1>4, <2>3, HoldsType
      <3> QED
        BY <1>3, <2>1, <3>1, <3>2, HoldsType DEF St
    <2> QED
      BY <2>2, <2>3
  <1>7. Holds(w, t)
    BY <1>3, <1>4, <1>5, <1>6 DEF Holds, TopTracked
  <1> QED
    BY <1>7 DEF w

\* safePush while a register is free.
LEMMA SafePushHolds ==
  ASSUME NEW u, NEW s, Holds(u, s), Len(s) < NRegs, NEW v \in Reals
  PROVE  Holds(SafePush(u, v), <<v>> \o s)
  <1> DEFINE w   == SafePush(u, v)
             t   == <<v>> \o s
             top == (u.stackPointer - 1) % NRegs
             st  == [u.status EXCEPT !.top = top, !.c1 = FALSE]
  <1>1. /\ top \in Index /\ NRegs \in Nat /\ NRegs >= 2 /\ u.stackPointer \in Int
        /\ NRegs - 1 \in Index /\ 0 \in Index
    <2>1. u.stackPointer \in Int /\ u.stackPointer - 1 \in Int
      BY HoldsType, X87Assumption DEF Index
    <2>2. top \in Index
      BY <2>1, ModIndex
    <2> QED
      BY <2>1, <2>2, X87Assumption DEF Index
  <1>2. u.tags[top] = "EMPTY"
    <2>2. (u.stackPointer + (NRegs - 1)) % NRegs = top
      <3>1. CASE u.stackPointer = 0
        BY <3>1, <1>1, ModNegative, ModSmall
      <3>2. CASE u.stackPointer > 0
        <4>1. (u.stackPointer + (NRegs - 1)) % NRegs = u.stackPointer - 1
          BY <3>2, <1>1, HoldsType, ModOnce DEF Index
        <4>2. u.stackPointer - 1 \in Index
          BY <3>2, <1>1, HoldsType DEF Index
        <4> QED
          BY <4>1, <4>2, ModSmall
      <3> QED
        BY <3>1, <3>2, HoldsType, <1>1 DEF Index
    <2>3. ~(NRegs - 1 < Len(s))
      BY <1>1, HoldsType
    <2> QED
      BY <1>1, <2>2, <2>3 DEF Holds, Filled
  <1>3. st \in Status /\ st.top = top /\ ~st.sf
    BY <1>1, HoldsType DEF Holds, Status
  <1>4. w = Rebuilt(u, [u.stack EXCEPT ![top] = v], top, [u.tags EXCEPT ![top] = TagOf(v)], st)
    <2> DEFINE moved == SetStackPointer(u, u.stackPointer - 1)
               pushed == [[moved EXCEPT !.status.c1 = FALSE, !.tags[top] = TagOf(v)] EXCEPT !.stack[top] = v]
    <2>1. u.trap = "none" /\ u.initialized /\ u \in Units /\ u.status \in Status
      BY HoldsType DEF Holds
    <2>2. moved = Rebuilt(u, u.stack, top, u.tags, [u.status EXCEPT !.top = top])
      BY <2>1 DEF SetStackPointer, Rebuilt, Units, Status
    <2>3. moved.stackPointer = top
      BY <2>1, <2>2 DEF Rebuilt, Units
    <2>4. w = pushed
      BY <1>2, <2>1, <2>3, Zenon DEF SafePush
    <2>5. pushed = Rebuilt(u, [u.stack EXCEPT ![top] = v], top, [u.tags EXCEPT ![top] = TagOf(v)], st)
      BY <2>1, <2>2 DEF Rebuilt, Units, Status
    <2> QED
      BY <2>4, <2>5
  <1> HIDE DEF w, top, st
  <1>5. /\ w \in Units /\ w.stack = [u.stack EXCEPT ![top] = v] /\ w.stackPointer = top
        /\ w.tags = [u.tags EXCEPT ![top] = TagOf(v)] /\ w.status = st
        /\ w.initialized = u.initialized /\ w.control = u.control /\ w.trap = u.trap
    <2> DEFINE stack == [u.stack EXCEPT ![top] = v]
               tags  == [u.tags EXCEPT ![top] = TagOf(v)]
    <2>1. /\ stack \in [Index -> Values] /\ tags \in [Index -> Tags] /\ u \in Units
          /\ w = Rebuilt(u, stack, top, tags, st)
      BY <1>4, HoldsType, RealTag
    <2> HIDE DEF stack, tags
    <2>2. /\ w \in Units /\ w.stack = stack /\ w.stackPointer = top /\ w.tags = tags
          /\ w.status = st /\ w.initialized = u.initialized /\ w.control = u.control
          /\ w.trap = u.trap
      BY <1>1, <1>3, <2>1, Built
    <2> QED
      BY <2>2 DEF stack, tags
  <1>6. t \in Stacks /\ Len(t) = Len(s) + 1 /\ t[1] = v /\ \A k \in 1 .. Len(s) : t[k + 1] = s[k]
    BY HoldsType, <1>1 DEF Stacks
  <1>7. (top + 0) % NRegs = top
    BY <1>1, ModSmall DEF Index
  <1>8. ASSUME NEW i \in Index, i > 0
        PROVE  /\ (top + i) % NRegs = Phys(u, i - 1) /\ (top + i) % NRegs # top
               /\ Phys(u, i - 1) \in Index /\ i - 1 \in Index
    <2>1. i - 1 \in Index /\ i # 0
      BY <1>1, <1>8 DEF Index
    <2>2. (top + i) % NRegs = (u.stackPointer + (i - 1)) % NRegs
      BY <1>8, HoldsType, TopBack DEF top
    <2>3. (top + i) % NRegs # top
      BY <1>1, <1>7, <2>1, PhysDiffer
    <2>4. Phys(u, i - 1) \in Index
      BY <2>1, HoldsTag
    <2> QED
      BY <2>1, <2>2, <2>3, <2>4 DEF Phys
  <1>9. Filled(w.tags, w.stackPointer, Len(t))
    <2> SUFFICES ASSUME NEW i \in Index
                 PROVE  (w.tags[(top + i) % NRegs] # "EMPTY") <=> i < Len(s) + 1
      BY <1>5, <1>6 DEF Filled
    <2>1. CASE i = 0
      BY <2>1, <1>1, <1>5, <1>7, HoldsType, RealTag
    <2>2. CASE i > 0
      <3>1. w.tags[(top + i) % NRegs] = u.tags[Phys(u, i - 1)]
        BY <2>2, <1>5, <1>8, HoldsType
      <3>2. (u.tags[Phys(u, i - 1)] # "EMPTY") <=> i - 1 < Len(s)
        BY <2>2, <1>8 DEF Holds, Filled, Phys
      <3> QED
        BY <3>1, <3>2, HoldsType, <1>1 DEF Index
    <2> QED
      BY <2>1, <2>2 DEF Index
  <1>10. ASSUME NEW k \in 1 .. Len(t) PROVE St(w, k - 1) = t[k]
    <2>1. CASE k = 1
      BY <2>1, <1>1, <1>5, <1>6, <1>7, HoldsType DEF St, Phys
    <2>2. CASE k > 1
      <3>1. k - 1 \in Index /\ k - 1 > 0 /\ k - 1 \in 1 .. Len(s) /\ (k - 1) + 1 = k
        BY <2>2, <1>1, <1>6, HoldsType DEF Index
      <3>2. St(w, k - 1) = St(u, (k - 1) - 1)
        BY <3>1, <1>5, <1>8, HoldsType DEF St, Phys
      <3>3. St(u, (k - 1) - 1) = s[k - 1]
        BY <3>1 DEF Holds
      <3>4. t[(k - 1) + 1] = s[k - 1]
        BY <3>1, <1>6
      <3> QED
        BY <3>1, <3>2, <3>3, <3>4
    <2> QED
      BY <2>1, <2>2, <1>6, HoldsType
  <1>11. Holds(w, t)
    BY <1>3, <1>5, <1>6, <1>9, <1>10 DEF Holds, TopTracked
  <1> QED
    BY <1>11 DEF w

\* safePop of a stack that is not empty.
LEMMA SafePopHolds ==
  ASSUME NEW u, NEW s, Holds(u, s), Len(s) > 0
  PROVE  Holds(SafePop(u), Tail(s))
  <1> DEFINE w    == SafePop(u)
             t    == Tail(s)
             top  == (u.stackPointer + 1) % NRegs
             st   == [u.status EXCEPT !.top = top]
             tags == [u.tags EXCEPT ![u.stackPointer] = "EMPTY"]
  <1>1. /\ top \in Index /\ NRegs \in Nat /\ NRegs >= 2 /\ u.stackPointer \in Int
        /\ NRegs - 1 \in Index /\ 0 \in Index
    <2>1. u.stackPointer \in Int /\ u.stackPointer + 1 \in Int
      BY HoldsType, X87Assumption DEF Index
    <2>2. top \in Index
      BY <2>1, ModIndex
    <2> QED
      BY <2>1, <2>2, X87Assumption DEF Index
  <1>2. Phys(u, 0) = u.stackPointer
    BY <1>1, HoldsType, ModSmall DEF Phys
  <1>3. u.tags[u.stackPointer] # "EMPTY"
    BY <1>1, <1>2, HoldsTag, HoldsType
  <1>4. /\ st \in Status /\ st.top = top /\ ~st.sf /\ tags \in [Index -> Tags]
        /\ u \in Units /\ u.stack \in [Index -> Values]
    <2>1. u.status \in Status /\ ~u.status.sf
      BY HoldsType DEF Holds
    <2>2. st \in Status /\ st.top = top /\ ~st.sf
      BY <1>1, <2>1 DEF Status
    <2>3. tags \in [Index -> Tags]
      BY HoldsType DEF Tags
    <2> QED
      BY <2>2, <2>3, HoldsType
  <1>5. w = Rebuilt(u, u.stack, top, tags, st)
    <2> DEFINE moved == SetStackPointer([u EXCEPT !.tags[u.stackPointer] = "EMPTY"], u.stackPointer + 1)
    <2>1. u.trap = "none" /\ u.initialized /\ u \in Units /\ u.status \in Status
      BY HoldsType DEF Holds
    <2>2. moved = Rebuilt(u, u.stack, top, tags, st)
      BY <2>1 DEF SetStackPointer, Rebuilt, Units, Status
    <2>3. moved.trap = "none" /\ moved.initialized
      BY <2>1, <2>2 DEF Rebuilt, Units
    <2>4. w = moved
      BY <1>3, <2>1, <2>3, Zenon DEF SafePop, NeedsStack
    <2> QED
      BY <2>2, <2>4
  <1> HIDE DEF w, top, st, tags
  <1>6. /\ w \in Units /\ w.stack = u.stack /\ w.stackPointer = top /\ w.tags = tags
        /\ w.status = st /\ w.initialized = u.initialized /\ w.control = u.control
        /\ w.trap = u.trap
    BY <1>1, <1>4, <1>5, Built
  <1>7. t \in Stacks /\ Len(t) = Len(s) - 1 /\ \A k \in 1 .. Len(t) : t[k] = s[k + 1]
    BY HoldsType, <1>1 DEF Stacks
  <1>8. ASSUME NEW i \in Index, i # NRegs - 1
        PROVE  /\ Phys(w, i) = Phys(u, i + 1) /\ Phys(u, i + 1) \in Index /\ i + 1 \in Index
               /\ Phys(u, i + 1) # u.stackPointer
    <2>1. i + 1 \in Index /\ i + 1 # 0
      BY <1>1, <1>8 DEF Index
    <2>2. (top + i) % NRegs = (u.stackPointer + (i + 1)) % NRegs
      BY <1>8, HoldsType, TopOn DEF top
    <2>3. Phys(u, i + 1) # u.stackPointer
      BY <1>1, <1>2, <2>1, HoldsType, PhysDiffer DEF Phys
    <2>4. Phys(u, i + 1) \in Index
      BY <2>1, HoldsTag
    <2> QED
      BY <1>6, <2>1, <2>2, <2>3, <2>4 DEF Phys
  <1>9. Filled(w.tags, w.stackPointer, Len(t))
    <2> SUFFICES ASSUME NEW i \in Index
                 PROVE  (w.tags[Phys(w, i)] # "EMPTY") <=> i < Len(s) - 1
      BY <1>6, <1>7 DEF Filled, Phys
    <2>1. CASE i = NRegs - 1
      <3>1. Phys(w, i) = u.stackPointer
        BY <2>1, <1>6, HoldsType, TopOn DEF Phys, top
      <3> QED
        BY <3>1, <2>1, <1>1, <1>6, HoldsType DEF tags
    <2>2. CASE i # NRegs - 1
      <3>1. w.tags[Phys(w, i)] = u.tags[Phys(u, i + 1)]
        BY <2>2, <1>6, <1>8, HoldsType DEF tags
      <3>2. (u.tags[Phys(u, i + 1)] # "EMPTY") <=> i + 1 < Len(s)
        BY <2>2, <1>8, HoldsTag
      <3> QED
        BY <3>1, <3>2, HoldsType, <1>1 DEF Index
    <2> QED
      BY <2>1, <2>2
  <1>10. ASSUME NEW k \in 1 .. Len(t) PROVE St(w, k - 1) = t[k]
    <2>1. k - 1 \in Index /\ k - 1 # NRegs - 1 /\ k + 1 \in 1 .. Len(s) /\ (k - 1) + 1 = (k + 1) - 1
      BY <1>1, <1>7, HoldsType DEF Index
    <2>2. St(w, k - 1) = St(u, (k + 1) - 1)
      BY <2>1, <1>6, <1>8 DEF St
    <2>3. St(u, (k + 1) - 1) = s[k + 1]
      BY <2>1 DEF Holds
    <2> QED
      BY <2>2, <2>3, <1>7
  <1>11. Holds(w, t)
    BY <1>4, <1>6, <1>7, <1>9, <1>10 DEF Holds, TopTracked
  <1> QED
    BY <1>11 DEF w

\* The checks of operands are told in the status only.
LEMMA CheckOperandsHolds ==
  ASSUME NEW u, NEW s, Holds(u, s), NEW a, NEW b
  PROVE  Holds(CheckOperands(u, a, b), s)
  <1> DEFINE st == [u.status EXCEPT !.ie = TRUE]
  <1>1. st \in Status /\ st.top = u.status.top /\ ~st.sf
    BY HoldsType DEF Holds, Status
  <1>2. [u EXCEPT !.status.ie = TRUE] = [u EXCEPT !.status = st]
    BY HoldsType DEF Units, Status
  <1>3. [u EXCEPT !.status = st].control = Masks /\ "IM" \in Masks
    BY HoldsType DEF Holds, Units, Masks
  <1>4. CheckOperands(u, a, b) = u \/ CheckOperands(u, a, b) = [u EXCEPT !.status = st]
    <2>1. Raise([u EXCEPT !.status.ie = TRUE], "IM", "invalid") = [u EXCEPT !.status = st]
      BY <1>2, <1>3 DEF Raise
    <2> QED
      BY <2>1 DEF CheckOperands
  <1>5. Holds([u EXCEPT !.status = st], s)
    BY <1>1, FlaggedHolds
  <1> QED
    BY <1>4, <1>5

LEMMA CheckDivisionHolds ==
  ASSUME NEW u, NEW s, Holds(u, s), NEW a, NEW b
  PROVE  Holds(CheckDivision(u, a, b), s)
  <1> DEFINE st(z) == [u.status EXCEPT !.ze = z]
             w(z)  == [u EXCEPT !.status = st(z)]
  <1>1. ASSUME NEW z \in BOOLEAN PROVE Holds(w(z), s) /\ w(z) = [u EXCEPT !.status.ze = z]
    <2>1. st(z) \in Status /\ st(z).top = u.status.top /\ ~st(z).sf
      BY HoldsType DEF Holds, Status
    <2>2. w(z) = [u EXCEPT !.status.ze = z]
      BY HoldsType DEF Units, Status
    <2>3. Holds(w(z), s)
      BY <2>1, FlaggedHolds
    <2> QED
      BY <2>2, <2>3
  <1> HIDE DEF w
  <1>2. Raise(w(TRUE), "ZM", "zero divide") = w(TRUE)
    BY <1>1 DEF Raise, Holds, Masks
  <1>3. Holds(CheckOperands(w(FALSE), a, b), s)
    BY <1>1, CheckOperandsHolds
  <1>4. u.trap = "none"
    BY DEF Holds
  <1>5. CheckDivision(u, a, b) = IF Falsy(b) THEN w(TRUE) ELSE CheckOperands(w(FALSE), a, b)
    BY <1>1, <1>2, <1>4 DEF CheckDivision
  <1> QED
    BY <1>1, <1>3, <1>5

\* reset leaves nothing.
LEMMA ResetHolds == ASSUME NEW u, u.trap = "none" PROVE Holds(ResetUnit(u), << >>)
  <1> DEFINE w == ResetUnit(u)
  <1>1. w \in Units /\ w.tags = [r \in Index |-> "EMPTY"] /\ w.stackPointer = 0
    BY X87Assumption, IndexInt DEF ResetUnit, Units, Status, Tags, Traps, Values
  <1>2. << >> \in Stacks /\ Len(<< >>) = 0
    BY X87Assumption DEF Stacks
  <1>3. Filled(w.tags, w.stackPointer, 0)
    <2> SUFFICES ASSUME NEW i \in Index PROVE w.tags[(0 + i) % NRegs] = "EMPTY" /\ ~(i < 0)
      BY <1>1 DEF Filled
    <2>1. (0 + i) % NRegs \in Index /\ ~(i < 0)
      BY ModIndex, X87Assumption DEF Index
    <2> QED
      BY <1>1, <2>1
  <1> QED
    BY <1>1, <1>2, <1>3 DEF Holds, ResetUnit, TopTracked

\* tick only clears flags.
LEMMA FetchedHolds ==
  ASSUME NEW s, Holds(unit, s)
  PROVE  Holds(Fetched, s) /\ \A i \in Int : St(Fetched, i) = St(unit, i)
  <1> DEFINE st == [unit.status EXCEPT !.sf = FALSE, !.ie = FALSE]
  <1>1. st \in Status /\ st.top = unit.status.top /\ ~st.sf
    BY HoldsType DEF Status
  <1>2. Fetched = [unit EXCEPT !.status = st]
    BY HoldsType DEF Fetched, Holds, Units, Status
  <1>3. Fetched.stack = unit.stack /\ Fetched.stackPointer = unit.stackPointer
    BY <1>2, HoldsType DEF Units
  <1> QED
    BY <1>1, <1>2, <1>3, FlaggedHolds DEF St, Phys

-----------------------------------------------------------------------------
(* Memory images.                                                          *)

\* What FSAVE writes holds the stack that the unit held.
LEMMA SavedHolds ==
  ASSUME NEW s, Holds(unit, s), NEW image,
         image = [control |-> unit.control, status |-> Fetched.status, tags |-> unit.tags,
                  stack |-> SavedRegisters(unit), written |-> TRUE]
  PROVE  ImageHolds(image, s)
  <1>1. Fetched.status \in Status /\ ~Fetched.status.sf
    BY FetchedHolds, HoldsType DEF Holds
  <1>2. Fetched.status.top = unit.stackPointer
    BY HoldsType DEF Fetched, Holds, TopTracked, Units, Status
  <1>3. SavedRegisters(unit) \in [Index -> Reals]
    BY HoldsType, IndexInt, StValue, WrittenReal DEF SavedRegisters
  <1>4. image \in Images /\ image.control = Masks
    BY <1>1, <1>3, HoldsType DEF Images, Holds, Masks
  <1>5. ASSUME NEW k \in 1 .. Len(s) PROVE image.stack[k - 1] = s[k]
    <2>1. k - 1 \in Index /\ St(unit, k - 1) = s[k] /\ s[k] \in Reals
      BY HoldsType, X87Assumption DEF Holds, Index
    <2> QED
      BY <2>1, X87Assumption DEF SavedRegisters, Written
  <1>6. Filled(image.tags, image.status.top, Len(s))
    BY <1>2 DEF Holds
  <1> QED
    BY <1>1, <1>4, <1>5, <1>6 DEF ImageHolds, Holds

\* FRSTOR makes the unit hold what the image holds.
LEMMA RestoredHolds ==
  ASSUME NEW u, NEW s, Holds(u, s), NEW image, NEW t, ImageHolds(image, t)
  PROVE  Holds(Restored(u, image), t)
  <1> DEFINE w     == Restored(u, image)
             top   == image.status.top
             stack == [r \in Index |-> image.stack[(r - top) % NRegs]]
  <1>1. /\ top \in Index /\ image.status \in Status /\ image.tags \in [Index -> Tags]
        /\ image.stack \in [Index -> Reals] /\ u \in Units /\ u.initialized
        /\ u.control = Masks /\ image.control = Masks /\ t \in Stacks
    BY DEF ImageHolds, Images, Status, Holds
  <1>2. stack \in [Index -> Values]
    <2> SUFFICES ASSUME NEW r \in Index PROVE image.stack[(r - top) % NRegs] \in Values
      OBVIOUS
    <2>1. r - top \in Int
      BY <1>1, X87Assumption DEF Index
    <2>2. (r - top) % NRegs \in Index
      BY <2>1, ModIndex
    <2> QED
      BY <1>1, <2>2, ValueTypes
  <1>3. w = Rebuilt(u, stack, top, image.tags, image.status)
    BY <1>1 DEF Restored, LoadEnv, Rebuilt, Units
  <1> HIDE DEF w, stack
  <1>4. /\ w \in Units /\ w.stack = stack /\ w.stackPointer = top /\ w.tags = image.tags
        /\ w.status = image.status /\ w.initialized = u.initialized /\ w.control = u.control
        /\ w.trap = u.trap
    <2> DEFINE tags == image.tags
               st   == image.status
    <2>1. /\ top \in Index /\ st \in Status /\ tags \in [Index -> Tags] /\ u \in Units
          /\ w = Rebuilt(u, stack, top, tags, st)
      BY <1>1, <1>3
    <2> HIDE DEF top, tags, st
    <2>2. /\ w \in Units /\ w.stack = stack /\ w.stackPointer = top /\ w.tags = tags
          /\ w.status = st /\ w.initialized = u.initialized /\ w.control = u.control
          /\ w.trap = u.trap
      BY <1>2, <2>1, Built
    <2> QED
      BY <2>2 DEF top, tags, st
  <1>5. ASSUME NEW k \in 1 .. Len(t) PROVE St(w, k - 1) = t[k]
    <2>1. k - 1 \in Index /\ top + (k - 1) \in Int
      <3>1. t \in Seq(Reals) /\ Len(t) <= NRegs /\ Len(t) \in Nat
        BY <1>1 DEF Stacks
      <3> QED
        BY <1>1, <3>1, X87Assumption DEF Index
    <2>2. (top + (k - 1)) % NRegs \in Index
      BY <2>1, ModIndex
    <2>3. stack[(top + (k - 1)) % NRegs] = image.stack[k - 1]
      <3>1. (((top + (k - 1)) % NRegs) - top) % NRegs = k - 1
        BY <1>1, <2>1, CountedFromTop
      <3> QED
        BY <2>2, <3>1 DEF stack
    <2>4. image.stack[k - 1] = t[k]
      BY DEF ImageHolds
    <2> QED
      BY <1>4, <2>3, <2>4 DEF St, Phys
  <1>6. Holds(w, t)
    BY <1>1, <1>4, <1>5 DEF Holds, ImageHolds, TopTracked
  <1> QED
    BY <1>6 DEF w

-----------------------------------------------------------------------------
(* From units to steps of FpuStack.                                        *)

LEMMA OperandsOfUnit ==
  ASSUME NEW s, Holds(unit, s)
  PROVE  Operands = s
  BY HoldsRead DEF Operands, Height, Occupied, Holds

\* What a step must keep and do.
Implements == DInv' /\ [Abstract!Next]_Abstract!vars

\* An instruction that leaves a unit holding t.
LEMMA ExecBecomes ==
  ASSUME DInv, NEW w, NEW t, Holds(w, t), Exec(w)
  PROVE  DInv' /\ Abstract!Becomes(t)
  <1>1. unit' = w /\ mem' = mem /\ saved' = saved
    BY DEF Exec
  <1>2. Operands' = t
    BY <1>1, HoldsRead DEF Operands, Height, Occupied, Holds
  <1>3. Kept' = Kept
    BY <1>1 DEF Kept, ImageHeight
  <1>4. DInv'
    BY <1>1, <1>2, <1>3 DEF DInv, Holds
  <1>5. Len(t) <= NRegs
    BY DEF Holds, Stacks
  <1> QED
    BY <1>1, <1>2, <1>3, <1>4, <1>5 DEF Abstract!Becomes

LEMMA ExecStutters ==
  ASSUME DInv, NEW w, Holds(w, Operands), Exec(w)
  PROVE  Implements
  BY ExecBecomes DEF Implements, Abstract!Becomes, Abstract!vars

\* An instruction that leaves the stack and stores a value.
LEMMA StoreKeeps ==
  ASSUME DInv, NEW w, NEW t, Holds(w, t), unit' = w, mem' \in Reals, UNCHANGED <<uses, env, saved>>
  PROVE  DInv' /\ Operands' = t /\ Kept' = Kept
  <1>1. Operands' = t
    BY HoldsRead DEF Operands, Height, Occupied, Holds
  <1>2. Kept' = Kept
    BY DEF Kept, ImageHeight
  <1> QED
    BY <1>1, <1>2 DEF DInv, Holds

\* Where an instruction of a disciplined program starts.
LEMMA Begins ==
  ASSUME DInv, unit.initialized
  PROVE  /\ Holds(unit, Operands) /\ Holds(Fetched, Operands)
         /\ Height = Len(Operands) /\ Height \in 0 .. NRegs /\ Operands \in Seq(Reals)
         /\ \A i \in 0 .. Height - 1 :
              /\ Nth(Fetched, i) = Fetched /\ St(unit, i) = Operands[i + 1]
              /\ Operands[i + 1] \in Reals /\ i + 1 \in 1 .. Len(Operands)
  <1>1. Holds(unit, Operands)
    BY DEF DInv
  <1>2. Holds(Fetched, Operands)
    BY <1>1, FetchedHolds
  <1>3. Height = Len(Operands) /\ Height \in 0 .. NRegs /\ Operands \in Seq(Reals)
    BY <1>1, HoldsRead, HoldsType DEF Height, Occupied
  <1>4. ASSUME NEW i \in 0 .. Height - 1
        PROVE  /\ Nth(Fetched, i) = Fetched /\ St(unit, i) = Operands[i + 1]
               /\ Operands[i + 1] \in Reals /\ i + 1 \in 1 .. Len(Operands)
    <2>1. i \in 0 .. Len(Operands) - 1
      BY <1>3
    <2> QED
      BY <1>1, <1>2, <2>1, NthHolds
  <1> QED
    BY <1>1, <1>2, <1>3, <1>4

LEMMA ReplacedLength ==
  ASSUME NEW s \in Seq(Reals), NEW i, NEW v \in Reals
  PROVE  Len([s EXCEPT ![i] = v]) = Len(s) /\ [s EXCEPT ![i] = v] \in Seq(Reals)
  <1>1. s \in [1 .. Len(s) -> Reals] /\ Len(s) \in Nat
    OBVIOUS
  <1>2. [s EXCEPT ![i] = v] \in [1 .. Len(s) -> Reals]
    BY <1>1
  <1> QED
    BY <1>1, <1>2

-----------------------------------------------------------------------------
(* Every instruction of a disciplined program is a step of FpuStack.       *)

LEMMA StackImplements ==
  ASSUME DInv, unit.initialized, StackSteps
  PROVE  Implements
  <1> DEFINE s == Operands
  <1>1. /\ Holds(Fetched, s) /\ Height = Len(s) /\ s \in Seq(Reals) /\ DOMAIN s = 1 .. Len(s)
        /\ \A i \in 0 .. Len(s) - 1 :
             /\ Nth(Fetched, i) = Fetched /\ St(unit, i) = s[i + 1] /\ s[i + 1] \in Reals
             /\ i + 1 \in 1 .. Len(s)
    BY Begins
  <1>2. Height > 0 => /\ Nth(Fetched, 0) = Fetched /\ St(unit, 0) = s[1] /\ s[1] \in Reals /\ s # << >>
                      /\ 0 \in 0 .. Len(s) - 1 /\ Len(s) > 0
    <2> SUFFICES ASSUME Height > 0
                 PROVE  /\ Nth(Fetched, 0) = Fetched /\ St(unit, 0) = s[1] /\ s[1] \in Reals
                        /\ s # << >> /\ 0 \in 0 .. Len(s) - 1 /\ Len(s) > 0
      OBVIOUS
    <2>1. 0 \in 0 .. Len(s) - 1 /\ Len(s) > 0
      BY <1>1
    <2> QED
      BY <2>1, <1>1
  <1> HIDE DEF s
  <1>3. CASE Height < NRegs /\ \E v \in Reals : FLD(v)
    <2> PICK v \in Reals : FLD(v)
      BY <1>3
    <2>1. Holds(SafePush(Fetched, v), <<v>> \o s)
      BY <1>1, <1>3, SafePushHolds
    <2>2. DInv' /\ Abstract!Becomes(<<v>> \o s)
      BY <2>1, ExecBecomes DEF FLD
    <2> QED
      BY <2>2 DEF Implements, Abstract!Next, Abstract!Push, s
  <1>4. CASE Height > 0 /\ FST
    <2>1. unit' = Fetched /\ mem' = s[1] /\ UNCHANGED <<uses, env, saved>>
      BY <1>1, <1>2, <1>4, X87Assumption DEF FST, Store, Holds, Written
    <2>2. DInv' /\ Operands' = s /\ Kept' = Kept
      BY <1>1, <1>2, <1>4, <2>1, StoreKeeps
    <2> QED
      BY <1>2, <1>4, <2>1, <2>2 DEF Implements, Abstract!Next, Abstract!Store, s
  <1>5. CASE Height > 0 /\ FXAM
    <2>1. Exec(Fetched)
      BY <1>2, <1>5 DEF FXAM
    <2> QED
      BY <1>1, <2>1, ExecStutters DEF s
  <1>6. CASE Height > 0 /\ \E v \in Reals : FIST(v) \/ FISTP(v)
    <2> PICK v \in Reals : FIST(v) \/ FISTP(v)
      BY <1>6
    <2>1. CASE FIST(v)
      <3>1. unit' = Fetched /\ mem' = v /\ UNCHANGED <<uses, env, saved>>
        BY <1>1, <1>2, <1>6, <2>1, X87Assumption DEF FIST, Store, Holds, Written
      <3>2. DInv' /\ Operands' = s /\ Kept' = Kept
        BY <1>1, <3>1, StoreKeeps
      <3> QED
        BY <1>2, <1>6, <3>1, <3>2 DEF Implements, Abstract!Next, Abstract!StoreInteger, s
    <2>2. CASE FISTP(v)
      <3>1. unit' = SafePop(Fetched) /\ mem' = v /\ UNCHANGED <<uses, env, saved>>
        BY <1>1, <1>2, <1>6, <2>2 DEF FISTP, Holds
      <3>2. Holds(SafePop(Fetched), Tail(s))
        BY <1>1, <1>2, <1>6, SafePopHolds
      <3>3. DInv' /\ Operands' = Tail(s) /\ Kept' = Kept
        BY <3>1, <3>2, StoreKeeps
      <3> QED
        BY <1>2, <1>6, <3>1, <3>3 DEF Implements, Abstract!Next, Abstract!StoreInteger, s
    <2> QED
      BY <2>1, <2>2
  <1>7. CASE \E i \in 0 .. Height - 1 : FSTst(i) \/ FSTPst(i) \/ FXCH(i)
    <2> PICK i \in 0 .. Height - 1 : FSTst(i) \/ FSTPst(i) \/ FXCH(i)
      BY <1>7
    <2> DEFINE t == [s EXCEPT ![i + 1] = s[1]]
               w == SetNthValue(Fetched, i, s[1])
    <2>1. /\ i \in 0 .. Len(s) - 1 /\ i + 1 \in DOMAIN s /\ Nth(Fetched, i) = Fetched
          /\ St(unit, i) = s[i + 1] /\ s[i + 1] \in Reals /\ Height > 0
      BY <1>1
    <2>2. Nth(Fetched, 0) = Fetched /\ St(unit, 0) = s[1] /\ s[1] \in Reals /\ Len(s) > 0
      BY <1>2, <2>1
    <2>3. Holds(w, t) /\ Len(t) > 0
      BY <1>1, <2>1, <2>2, SetNthValueHolds, ReplacedLength
    <2>4. CASE FSTst(i)
      <3>1. Exec(w)
        BY <2>2, <2>4 DEF FSTst
      <3>2. DInv' /\ Abstract!Becomes(t)
        BY <2>3, <3>1, ExecBecomes
      <3> QED
        BY <2>1, <3>2 DEF Implements, Abstract!Next, Abstract!Copy, s
    <2>5. CASE FSTPst(i)
      <3>1. Exec(SafePop(w)) /\ Holds(SafePop(w), Tail(t))
        BY <2>2, <2>3, <2>5, SafePopHolds DEF FSTPst
      <3>2. DInv' /\ Abstract!Becomes(Tail(t))
        BY <3>1, ExecBecomes
      <3> QED
        BY <2>1, <3>2 DEF Implements, Abstract!Next, Abstract!CopyDrop, s
    <2>6. CASE FXCH(i)
      <3> DEFINE t1 == [s EXCEPT ![0 + 1] = s[i + 1]]
                 w1 == SetNthValue(Fetched, 0, s[i + 1])
                 t2 == [t1 EXCEPT ![i + 1] = s[1]]
                 w2 == SetNthValue(w1, i, s[1])
      <3>1. Nth2(Fetched, 0, i) = Fetched
        BY <2>1, <2>2 DEF Nth2
      <3>2. Exec(w2)
        BY <2>1, <2>2, <2>6, <3>1 DEF FXCH
      <3>3. 0 \in 0 .. Len(s) - 1
        BY <1>2, <2>1
      <3>4. Holds(w1, t1) /\ Len(t1) = Len(s)
        BY <1>1, <2>1, <3>3, SetNthValueHolds, ReplacedLength
      <3>5. i \in 0 .. Len(t1) - 1
        BY <2>1, <3>4
      <3> HIDE DEF w1, t1
      <3>6. Holds(w2, t2)
        BY <2>2, <3>4, <3>5, SetNthValueHolds
      <3>7. t2 = [s EXCEPT ![1] = s[i + 1], ![i + 1] = s[1]]
        BY DEF t1
      <3>8. DInv' /\ Abstract!Becomes(t2)
        BY <3>2, <3>6, ExecBecomes
      <3>9. Abstract!Exchange
        BY <2>1, <3>7, <3>8 DEF Abstract!Exchange, Abstract!Exchanged, s
      <3> QED
        BY <3>8, <3>9 DEF Implements, Abstract!Next
    <2> QED
      BY <2>4, <2>5, <2>6
  <1> QED
    BY <1>3, <1>4, <1>5, <1>6, <1>7 DEF StackSteps

\* The numbers that an instruction on two registers computes from.
LEMMA BothRead ==
  ASSUME DInv, unit.initialized, NEW i \in 0 .. Height - 1, NEW j \in 0 .. Height - 1
  PROVE  Nth2(Fetched, i, j) = Fetched
  BY Begins DEF Nth2

\* A result goes into a register, and a pop may follow.
LEMMA ResultGoesInto ==
  ASSUME DInv, unit.initialized, NEW u, Holds(u, Operands), NEW i \in 0 .. Height - 1, NEW v \in Reals
  PROVE  /\ Exec(SetNthValue(u, i, v)) => Implements
         /\ Exec(SafePop(SetNthValue(u, i, v))) => Implements
  <1> DEFINE s == Operands
             t == [s EXCEPT ![i + 1] = v]
             w == SetNthValue(u, i, v)
  <1>1. i \in 0 .. Len(s) - 1 /\ i + 1 \in DOMAIN s /\ Len(s) > 0 /\ s \in Seq(Reals)
    BY Begins
  <1>2. Holds(w, t)
    BY <1>1, SetNthValueHolds
  <1>3. Len(t) > 0
    BY <1>1, ReplacedLength
  <1> HIDE DEF w
  <1>4. ASSUME Exec(w) PROVE Implements
    <2>1. DInv' /\ Abstract!Becomes(t)
      BY <1>2, <1>4, ExecBecomes
    <2> QED
      BY <1>1, <2>1 DEF Implements, Abstract!Next, Abstract!Compute
  <1>5. ASSUME Exec(SafePop(w)) PROVE Implements
    <2>1. Holds(SafePop(w), Tail(t))
      BY <1>2, <1>3, SafePopHolds
    <2>2. DInv' /\ Abstract!Becomes(Tail(t))
      BY <2>1, <1>5, ExecBecomes
    <2> QED
      BY <1>1, <2>2 DEF Implements, Abstract!Next, Abstract!ComputeDrop
  <1> QED
    BY <1>4, <1>5 DEF w

LEMMA ComputingImplements ==
  ASSUME DInv, unit.initialized, NEW v \in Reals,
         \/ Height > 0 /\ Unary(0, 0, v)
         \/ Height > 1 /\ (FPREM(v) \/ FYL2X(v) \/ FPATAN(v))
         \/ Height > 0 /\ \E m \in Reals : ArithMem(m, v)
  PROVE  Implements
  <1>1. Holds(Fetched, Operands) /\ Height \in 0 .. NRegs /\ NRegs \in Nat
    BY Begins, X87Assumption
  <1>2. CASE Height > 0 /\ Unary(0, 0, v)
    <2>1. 0 \in 0 .. Height - 1
      BY <1>1, <1>2
    <2>2. Exec(SetNthValue(Fetched, 0, v))
      BY <1>2, <2>1, BothRead DEF Unary
    <2> QED
      BY <1>1, <2>1, <2>2, ResultGoesInto
  <1>3. CASE Height > 1 /\ FPREM(v)
    <2> DEFINE s == Operands
               t == [s EXCEPT ![0 + 1] = v]
               w == SetNthValue(Fetched, 0, v)
    <2>1. 0 \in 0 .. Height - 1 /\ 1 \in 0 .. Height - 1
      BY <1>1, <1>3
    <2>2. 0 \in 0 .. Len(s) - 1 /\ 0 + 1 \in DOMAIN s
      BY <2>1, Begins
    <2>3. Holds(w, t)
      BY <1>1, <2>2, SetNthValueHolds
    <2>4. PICK bit \in BOOLEAN :
            Exec(IF w.trap = "none" THEN [w EXCEPT !.status.c1 = @ \/ bit] ELSE w)
      BY <1>3, <2>1, BothRead DEF FPREM
    <2> HIDE DEF w
    <2> DEFINE status == [w.status EXCEPT !.c1 = @ \/ bit]
               z == [w EXCEPT !.status = status]
    <2>5. w \in Units /\ w.status \in Status /\ w.trap = "none" /\ ~w.status.sf
      BY <2>3, HoldsType DEF Holds
    <2>6. status \in Status /\ status.top = w.status.top /\ ~status.sf
      BY <2>5 DEF Status
    <2>7. Exec(z)
      BY <2>4, <2>5
    <2> HIDE DEF status
    <2>8. Holds(z, t)
      BY <2>3, <2>6, FlaggedHolds
    <2> HIDE DEF z
    <2>9. DInv' /\ Abstract!Becomes(t)
      BY <2>7, <2>8, ExecBecomes
    <2> QED
      BY <2>2, <2>9 DEF Implements, Abstract!Next, Abstract!Compute
  <1>4. CASE Height > 1 /\ (FYL2X(v) \/ FPATAN(v))
    <2>1. 0 \in 0 .. Height - 1 /\ 1 \in 0 .. Height - 1
      BY <1>1, <1>4
    <2>2. Nth2(Fetched, 1, 0) = Fetched
      BY <2>1, BothRead
    <2>3. CASE FYL2X(v)
      BY <1>1, <2>1, <2>2, <2>3, ResultGoesInto DEF FYL2X
    <2>4. CASE FPATAN(v)
      <3> DEFINE u == CheckDivision(Fetched, St(unit, 1), St(unit, 0))
      <3>1. Holds(u, Operands)
        BY <1>1, CheckDivisionHolds
      <3>2. Exec(SafePop(SetNthValue(u, 1, v)))
        BY <2>2, <2>4 DEF FPATAN
      <3> HIDE DEF u
      <3> QED
        BY <2>1, <3>1, <3>2, ResultGoesInto
    <2> QED
      BY <1>4, <2>3, <2>4
  <1>5. CASE Height > 0 /\ \E m \in Reals : ArithMem(m, v)
    <2> PICK m \in Reals : ArithMem(m, v)
      BY <1>5
    <2> DEFINE u1 == CheckOperands(Fetched, St(unit, 0), m)
               u2 == CheckDivision(Fetched, St(unit, 0), m)
               u3 == CheckDivision(Fetched, m, St(unit, 0))
    <2>1. 0 \in 0 .. Height - 1
      BY <1>1, <1>5
    <2>2. Nth(Fetched, 0) = Fetched
      BY <2>1, Begins
    <2>3. Holds(u1, Operands) /\ Holds(u2, Operands) /\ Holds(u3, Operands)
      BY <1>1, CheckOperandsHolds, CheckDivisionHolds
    <2>4. \/ Exec(SetNthValue(u1, 0, v)) \/ Exec(SetNthValue(u2, 0, v))
          \/ Exec(SetNthValue(u3, 0, v))
      BY <2>2 DEF ArithMem
    <2> HIDE DEF u1, u2, u3
    <2> QED
      BY <2>1, <2>3, <2>4, ResultGoesInto
  <1> QED
    BY <1>2, <1>3, <1>4, <1>5

LEMMA TwoOperandsImplement ==
  ASSUME DInv, unit.initialized, NEW v \in Reals, NEW i \in 0 .. Height - 1,
         \/ \E dest \in {0, i} : Arith(i, dest, v) \/ Divide(i, dest, v)
         \/ ArithP(i, v) \/ DivideP(i, v)
  PROVE  Implements
  <1>1. Holds(Fetched, Operands) /\ Height \in 0 .. NRegs /\ NRegs \in Nat /\ 0 \in 0 .. Height - 1
    BY Begins, X87Assumption
  <1> DEFINE u == CheckOperands(Fetched, St(unit, 0), St(unit, i))
  <1>2. Holds(u, Operands)
    BY <1>1, CheckOperandsHolds
  <1>3. Nth2(Fetched, 0, i) = Fetched
    BY <1>1, BothRead
  <1>4. ASSUME NEW dest \in {0, i}, Arith(i, dest, v) PROVE Implements
    <2>1. Exec(SetNthValue(u, dest, v))
      BY <1>3, <1>4 DEF Arith
    <2>2. dest \in 0 .. Height - 1
      BY <1>1
    <2> HIDE DEF u
    <2> QED
      BY <1>2, <2>1, <2>2, ResultGoesInto
  <1>5. CASE ArithP(i, v)
    <2>1. Exec(SafePop(SetNthValue(u, i, v)))
      BY <1>3, <1>5 DEF ArithP
    <2> HIDE DEF u
    <2> QED
      BY <1>2, <2>1, ResultGoesInto
  <1>6. ASSUME NEW dest \in {0, i}, Divide(i, dest, v) PROVE Implements
    <2> PICK a, b \in {0, i} :
          Exec(SetNthValue(CheckDivision(Nth2(Fetched, a, b), St(unit, a), St(unit, b)), dest, v))
      BY <1>6 DEF Divide
    <2> DEFINE d == CheckDivision(Fetched, St(unit, a), St(unit, b))
    <2>1. a \in 0 .. Height - 1 /\ b \in 0 .. Height - 1 /\ dest \in 0 .. Height - 1
      BY <1>1
    <2>2. Exec(SetNthValue(d, dest, v))
      BY <2>1, BothRead
    <2>3. Holds(d, Operands)
      BY <1>1, CheckDivisionHolds
    <2> HIDE DEF d
    <2> QED
      BY <2>1, <2>2, <2>3, ResultGoesInto
  <1>7. CASE DivideP(i, v)
    <2> PICK a, b \in {0, i} :
          Exec(SafePop(SetNthValue(
            CheckDivision(Nth2(Fetched, a, b), St(unit, a), St(unit, b)), i, v)))
      BY <1>7 DEF DivideP
    <2> DEFINE d == CheckDivision(Fetched, St(unit, a), St(unit, b))
    <2>1. a \in 0 .. Height - 1 /\ b \in 0 .. Height - 1
      BY <1>1
    <2>2. Exec(SafePop(SetNthValue(d, i, v)))
      BY <2>1, BothRead
    <2>3. Holds(d, Operands)
      BY <1>1, CheckDivisionHolds
    <2> HIDE DEF d
    <2> QED
      BY <2>2, <2>3, ResultGoesInto
  <1> QED
    BY <1>4, <1>5, <1>6, <1>7
\* A register is dropped, or the top becomes a result and another is pushed.
LEMMA DropImplements ==
  ASSUME DInv, unit.initialized, NEW u, Holds(u, Operands), Height > 0, Exec(SafePop(u))
  PROVE  Implements
  <1>1. Len(Operands) > 0 /\ Operands # << >>
    BY Begins
  <1>2. DInv' /\ Abstract!Becomes(Tail(Operands))
    BY <1>1, SafePopHolds, ExecBecomes
  <1> QED
    BY <1>1, <1>2 DEF Implements, Abstract!Next, Abstract!Drop

LEMMA ComparingImplements ==
  ASSUME DInv, unit.initialized,
         \/ \E i \in 0 .. Height - 1 : FCOM(i) \/ FCOMP(i)
         \/ Height > 0 /\ \E m \in Reals : FCOMmem(m) \/ FCOMPmem(m)
         \/ Height > 1 /\ FCOMPP
  PROVE  Implements
  <1>1. Holds(Fetched, Operands) /\ Height = Len(Operands) /\ Height \in 0 .. NRegs /\ NRegs \in Nat
    BY Begins, X87Assumption
  <1>2. ASSUME NEW i \in 0 .. Height - 1 PROVE Holds(Compared(i), Operands)
    <2>1. 0 \in 0 .. Height - 1
      BY <1>1
    <2> QED
      BY <1>1, <2>1, BothRead, CheckOperandsHolds DEF Compared
  <1>3. CASE \E i \in 0 .. Height - 1 : FCOM(i) \/ FCOMP(i)
    <2> PICK i \in 0 .. Height - 1 : FCOM(i) \/ FCOMP(i)
      BY <1>3
    <2>1. Height > 0
      BY <1>1
    <2> QED
      BY <1>2, <2>1, ExecStutters, DropImplements DEF FCOM, FCOMP
  <1>4. CASE Height > 0 /\ \E m \in Reals : FCOMmem(m) \/ FCOMPmem(m)
    <2> PICK m \in Reals : FCOMmem(m) \/ FCOMPmem(m)
      BY <1>4
    <2> DEFINE u == CheckOperands(Fetched, St(unit, 0), m)
    <2>1. 0 \in 0 .. Height - 1
      BY <1>1, <1>4
    <2>2. Exec(u) \/ Exec(SafePop(u))
      BY <2>1, Begins DEF FCOMmem, FCOMPmem
    <2>3. Holds(u, Operands)
      BY <1>1, CheckOperandsHolds
    <2> HIDE DEF u
    <2> QED
      BY <1>4, <2>2, <2>3, ExecStutters, DropImplements
  <1>5. CASE Height > 1 /\ FCOMPP
    <2> DEFINE w == SafePop(Compared(1))
    <2>1. 1 \in 0 .. Height - 1
      BY <1>1, <1>5
    <2>2. Holds(w, Tail(Operands))
      BY <1>1, <1>2, <1>5, <2>1, SafePopHolds
    <2>4. Len(Tail(Operands)) > 0
      BY <1>1, <1>5, Begins
    <2>3. Exec(SafePop(w))
      BY <1>5 DEF FCOMPP
    <2> HIDE DEF w
    <2>5. Holds(SafePop(w), Tail(Tail(Operands)))
      BY <2>2, <2>4, SafePopHolds
    <2>6. DInv' /\ Abstract!Becomes(Tail(Tail(Operands)))
      BY <2>3, <2>5, ExecBecomes
    <2> QED
      BY <1>1, <1>5, <2>6 DEF Implements, Abstract!Next, Abstract!DropTwo
  <1> QED
    BY <1>3, <1>4, <1>5

LEMMA PushingImplements ==
  ASSUME DInv, unit.initialized, Height > 0, Height < NRegs,
         NEW v \in Reals, NEW w \in Reals, FSINCOS(v, w)
  PROVE  Implements
  <1> DEFINE s == Operands
             t == [s EXCEPT ![0 + 1] = v]
             u == SetNthValue(Fetched, 0, v)
  <1>1. 0 \in 0 .. Height - 1 /\ 0 \in 0 .. Len(s) - 1 /\ s \in Seq(Reals) /\ Height = Len(s)
        /\ Holds(Fetched, s) /\ s # << >>
    BY Begins
  <1>2. Exec(SafePush(u, w))
    BY <1>1, Begins, NthHolds DEF FSINCOS
  <1>3. Holds(u, t) /\ Len(t) < NRegs
    BY <1>1, SetNthValueHolds, ReplacedLength
  <1> HIDE DEF u
  <1>4. Holds(SafePush(u, w), <<w>> \o t)
    BY <1>3, SafePushHolds
  <1>5. DInv' /\ Abstract!Becomes(<<w>> \o t)
    BY <1>2, <1>4, ExecBecomes
  <1>6. Abstract!ComputePush
    <2>1. t = [s EXCEPT ![1] = v]
      OBVIOUS
    <2> HIDE DEF t
    <2>2. \E x, y \in Reals : Abstract!Becomes(<<y>> \o [s EXCEPT ![1] = x])
      BY <1>5, <2>1
    <2> QED
      BY <1>1, <2>2 DEF Abstract!ComputePush
  <1> QED
    BY <1>5, <1>6 DEF Implements, Abstract!Next

LEMMA ArithmeticImplements ==
  ASSUME DInv, unit.initialized, ArithmeticSteps
  PROVE  Implements
  BY ComputingImplements, TwoOperandsImplement, ComparingImplements, PushingImplements
  DEF ArithmeticSteps

\* FINIT empties the stack, before the first of them too.
LEMMA ResetImplements ==
  ASSUME DInv, FINIT
  PROVE  Implements
  <1>1. Fetched.trap = "none"
    BY DEF Fetched
  <1>2. Holds(ResetUnit(Fetched), << >>)
    BY <1>1, ResetHolds
  <1>3. DInv' /\ Abstract!Becomes(<< >>)
    BY <1>2, ExecBecomes DEF FINIT
  <1> QED
    BY <1>3 DEF Implements, Abstract!Next, Abstract!Clear

LEMMA SaveImplements ==
  ASSUME DInv, unit.initialized, FSAVE
  PROVE  Implements
  <1> DEFINE s == Operands
             image == [control |-> unit.control, status |-> Fetched.status, tags |-> unit.tags,
                       stack |-> SavedRegisters(unit), written |-> TRUE]
  <1>1. unit' = ResetUnit(Fetched) /\ saved' = image /\ mem' = mem
    BY DEF FSAVE
  <1>2. Fetched.trap = "none"
    BY DEF Fetched
  <1>3. Holds(unit, s)
    BY DEF DInv
  <1>4. ImageHolds(image, s)
    BY <1>3, SavedHolds
  <1>5. image.written
    OBVIOUS
  <1> HIDE DEF s, image
  <1>6. Holds(ResetUnit(Fetched), << >>)
    BY <1>2, ResetHolds
  <1>7. Operands' = << >>
    BY <1>1, <1>6, HoldsRead DEF Operands, Height, Occupied, Holds
  <1>8. Kept' = s
    BY <1>1, <1>4, <1>5, ImageHoldsRead DEF Kept, ImageHeight
  <1>9. DInv'
    BY <1>1, <1>4, <1>5, <1>6, <1>7, <1>8 DEF DInv, Holds
  <1> QED
    BY <1>1, <1>7, <1>8, <1>9 DEF Implements, Abstract!Next, Abstract!Save, s

LEMMA RestoreImplements ==
  ASSUME DInv, unit.initialized, FRSTOR
  PROVE  Implements
  <1>1. saved.written /\ Exec(Restored(Fetched, saved))
    BY DEF FRSTOR
  <1>2. ImageHolds(saved, Kept) /\ Holds(Fetched, Operands)
    BY <1>1, Begins DEF DInv
  <1>3. Holds(Restored(Fetched, saved), Kept)
    BY <1>2, RestoredHolds
  <1>4. DInv' /\ Abstract!Becomes(Kept)
    BY <1>1, <1>3, ExecBecomes
  <1> QED
    BY <1>4 DEF Implements, Abstract!Next, Abstract!Recall

LEMMA ControlImplements ==
  ASSUME DInv, unit.initialized, ControlSteps
  PROVE  Implements
  <1>1. CASE FNCLEX
    <2> DEFINE u == Fetched
               status == [u.status EXCEPT !.ze = FALSE]
    <2>1. Holds(u, Operands)
      BY Begins
    <2> HIDE DEF u
    <2>2. u.status \in Status /\ ~u.status.sf
      BY <2>1, HoldsType DEF Holds
    <2>3. status \in Status /\ status.top = u.status.top /\ ~status.sf
      BY <2>2 DEF Status
    <2>4. Exec([u EXCEPT !.status = status])
      BY <1>1, <2>1 DEF FNCLEX, u
    <2> HIDE DEF status
    <2> QED
      BY <2>1, <2>3, <2>4, FlaggedHolds, ExecStutters
  <1> QED
    BY <1>1, ResetImplements, SaveImplements, RestoreImplements DEF ControlSteps

-----------------------------------------------------------------------------
(* The theorems.                                                           *)

LEMMA DisciplinedStarts ==
  ASSUME Init
  PROVE  DInv /\ Abstract!Init
  <1>1. /\ unit.initialized = FALSE /\ saved.written = FALSE /\ mem = "zero"
    BY DEF Init
  <1>2. mem \in Reals
    BY <1>1, X87Assumption
  <1>3. Operands = << >> /\ Kept = << >>
    BY <1>1 DEF Operands, Kept, Height
  <1> QED
    BY <1>1, <1>2, <1>3 DEF DInv, Abstract!Init

LEMMA DisciplinedStep ==
  ASSUME DInv, [DisciplinedNext]_vars
  PROVE  DInv' /\ [Abstract!Next]_(Abstract!vars)
  <1>1. CASE UNCHANGED vars
    BY <1>1 DEF vars, DInv, Abstract!vars, Operands, Kept, Height, Occupied, ImageHeight,
                Holds, ImageHolds, St, Phys
  <1>2. CASE DisciplinedNext /\ unit.initialized
    BY <1>2, StackImplements, ArithmeticImplements, ControlImplements DEF DisciplinedNext, Implements
  <1>3. CASE DisciplinedNext /\ ~unit.initialized
    BY <1>3, ResetImplements DEF DisciplinedNext, Implements
  <1> QED
    BY <1>1, <1>2, <1>3

LEMMA DisciplinedIsWhole == DInv => NoHolesNoFaults
  <1> SUFFICES ASSUME DInv, unit.initialized
               PROVE  /\ Occupied = {Phys(unit, i) : i \in 0 .. Height - 1}
                      /\ ~unit.status.sf /\ unit.trap = "none"
    BY DEF NoHolesNoFaults, NoHoles, NeverFaults
  <1>1. Holds(unit, Operands) /\ Height = Len(Operands)
    BY Begins
  <1> QED
    BY <1>1, HoldsRead DEF Occupied, Holds

\* To a program that starts with FINIT, masks every exception, pushes only while
\* a register is free and names only what it pushed, the registers in use are
\* st(0) up to the height of the stack, whatever it executed before, and none of
\* its pushes and pops ever meets a stack fault (X87Regs.ts safePush, safePop,
\* setNthValue; X87.ts fsave, frstor).
THEOREM DisciplineLeavesNoHoles == DisciplinedSpec => []NoHolesNoFaults
  <1>1. Init => DInv
    BY DisciplinedStarts
  <1>2. DInv /\ [DisciplinedNext]_vars => DInv'
    BY DisciplinedStep
  <1> QED
    BY <1>1, <1>2, DisciplinedIsWhole, PTL DEF DisciplinedSpec

\* Every instruction of such a program does to st(0), st(1), ... what it does to
\* a stack: the circular register file with its pointer and its tags, saved by
\* FSAVE and loaded by FRSTOR from any top, implements FpuStack.
THEOREM UnitImplementsStack == DisciplinedSpec => ImplementsStack
  <1>1. Init => DInv /\ Abstract!Init
    BY DisciplinedStarts
  <1>2. DInv /\ [DisciplinedNext]_vars => DInv' /\ [Abstract!Next]_(Abstract!vars)
    BY DisciplinedStep
  <1> QED
    BY <1>1, <1>2, PTL DEF DisciplinedSpec, ImplementsStack, Abstract!Spec
=============================================================================
