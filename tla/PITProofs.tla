----------------------------- MODULE PITProofs -----------------------------
(***************************************************************************)
(* Proofs about PIT, for every size of a byte and all programs.            *)
(***************************************************************************)
EXTENDS PIT, TLAPS

\* A counter between the accesses of a pair: what it holds that the bytes still to
\* come are taken from, and whose turn it is.
LatchTracked(t, s) ==
  s.mode = "latch" =>
    /\ t.mode = "latch"
    /\ s.first = None => t.latched /\ t.latch = s.count /\ t.offset = 1
    /\ s.first.op = "read" /\ s.second = None
         => t.latched /\ t.latch = s.count /\ t.offset = 0 /\ s.first.byte = s.count.hi
    /\ Were(s, "read", "read") => s.count = [lo |-> s.second.byte, hi |-> s.first.byte]

ReloadTracked(t, s, speaker) ==
  s.mode = "lo hi" /\ (speaker => s.aligned) =>
    /\ t.mode = "lo hi"
    /\ s.first = None => t.offset = 0
    /\ s.first.op = "write" /\ s.second = None
         => t.offset = 1 /\ t.countdown.lo = s.first.byte

NotedInOrder(s) ==
  /\ s.first.op = "none" => s.first = None /\ s.second = None
  /\ s.second.op = "none" => s.second = None

Tracked(t, s, speaker) ==
  NotedInOrder(s) /\ LatchTracked(t, s) /\ ReloadTracked(t, s, speaker)

\* The inductive invariant.
IInv ==
  /\ TypeOK /\ SoundsOnce
  /\ \A c \in Channels : Tracked(timers[c], since[c], c = Speaker)

-----------------------------------------------------------------------------
(* Bytes and what is noted of an access.                                   *)

\* The least and the greatest byte are bytes, Zero is a count and None an access.
LEMMA ByteTypes ==
  /\ 0 \in Bytes /\ Byte - 1 \in Bytes
  /\ Zero \in Counts /\ None \in Accesses
  BY PITAssumption DEF Bytes, Zero, Counts, None, Accesses

\* Replacing a byte of a count yields a count.
LEMMA ReplacedType ==
  ASSUME NEW nth, NEW n \in Counts, NEW b \in Bytes
  PROVE  ReplaceNthByte(nth, n, b) \in Counts
  BY DEF ReplaceNthByte, Counts

\* The low byte stays when the high one is replaced.
LEMMA HighByte ==
  ASSUME NEW n, NEW b
  PROVE  ReplaceNthByte(1, n, b) = [lo |-> n.lo, hi |-> b]
  <1>1. 1 # 0
    OBVIOUS
  <1> QED
    BY <1>1, Zenon DEF ReplaceNthByte

\* A note of an access is well typed.
LEMMA NotedType ==
  ASSUME NEW s \in Tellings, NEW a \in Accesses PROVE Noted(s, a) \in Tellings
  BY DEF Noted, Tellings

-----------------------------------------------------------------------------
(* One access, and what is known of its counter afterwards.                *)

\* The three forms a note takes.
LEMMA NotedCases ==
  ASSUME NEW s \in Tellings, NEW a \in Accesses, a.op # "none", NotedInOrder(s)
  PROVE  /\ NotedInOrder(Noted(s, a))
         /\ Noted(s, a).mode = s.mode /\ Noted(s, a).count = s.count
         /\ Noted(s, a).aligned = s.aligned
         /\ \/ s.first = None /\ s.second = None
               /\ Noted(s, a).first = a /\ Noted(s, a).second = None
            \/ s.first # None /\ s.second = None
               /\ Noted(s, a).first = s.first /\ Noted(s, a).second = a
            \/ s.first # None /\ s.second # None /\ Noted(s, a) = s
  <1>1. a # None /\ s.first.op \in {"none", "read", "write"}
    BY DEF None, Tellings, Accesses
  <1>2. CASE s.first = None
    BY <1>1, <1>2 DEF Noted, Tellings, NotedInOrder, None
  <1>3. CASE s.first # None /\ s.second = None
    BY <1>1, <1>3 DEF Noted, Tellings, NotedInOrder, None
  <1>4. CASE s.first # None /\ s.second # None
    BY <1>4 DEF Noted
  <1> QED
    BY <1>2, <1>3, <1>4

\* A byte read is taken from the latch while there is one, and turns the order.
LEMMA ReadTracked ==
  ASSUME NEW t \in Timers, NEW s \in Tellings, NEW speaker \in BOOLEAN,
         Tracked(t, s, speaker),
         NEW n \in Counts, t.latched => n = t.latch, t.mode \in {"latch", "lo hi"}
  PROVE  Tracked(AfterRead(t), Noted(s, [op |-> "read", byte |-> NthByte(t.offset, n)]), speaker)
  <1> DEFINE a == [op |-> "read", byte |-> NthByte(t.offset, n)]
             z == Noted(s, a)
             u == AfterRead(t)
  <1>1. a \in Accesses /\ a.op = "read"
    BY DEF NthByte, Counts, Accesses, Timers
  <1>2. /\ u.mode = t.mode /\ u.latch = t.latch
        /\ t.offset = 0 => u.offset = 1
        /\ t.offset = 1 => u.offset = 0
        /\ t.offset # 0 /\ t.latched => u.latched
        /\ t.offset \in {0, 1}
    BY DEF AfterRead, OtherByte, Timers
  <1>3. a.byte = IF t.offset = 0 THEN n.lo ELSE n.hi
    BY DEF NthByte
  <1>4. NotedInOrder(s) /\ LatchTracked(t, s) /\ ReloadTracked(t, s, speaker)
    BY DEF Tracked
  <1>5. /\ NotedInOrder(z) /\ z.mode = s.mode /\ z.count = s.count /\ z.aligned = s.aligned
        /\ \/ s.first = None /\ s.second = None /\ z.first = a /\ z.second = None
           \/ s.first # None /\ s.second = None /\ z.first = s.first /\ z.second = a
           \/ s.first # None /\ s.second # None /\ z = s
    BY <1>1, <1>4, NotedCases
  <1> None.op = "none" /\ s.count \in Counts
    BY DEF None, Tellings
  <1> HIDE DEF a, z, u
  <1>6. LatchTracked(u, z)
    <2> SUFFICES ASSUME s.mode = "latch" PROVE LatchTracked(u, z)
      BY <1>5 DEF LatchTracked
    <2>1. /\ t.mode = "latch"
          /\ s.first = None => t.latched /\ t.latch = s.count /\ t.offset = 1
          /\ s.first.op = "read" /\ s.second = None
               => t.latched /\ t.latch = s.count /\ t.offset = 0 /\ s.first.byte = s.count.hi
          /\ s.first.op = "read" /\ s.second.op = "read"
               => s.count = [lo |-> s.second.byte, hi |-> s.first.byte]
      BY <1>4 DEF LatchTracked, Were
    <2>2. CASE s.first = None
      <3>1. t.latched /\ n = s.count /\ t.offset = 1
        BY <2>1, <2>2
      <3>2. u.latched /\ u.latch = s.count /\ u.offset = 0 /\ a.byte = s.count.hi
        <4>1. n.hi = s.count.hi /\ t.offset # 0 /\ t.latch = s.count
          BY <2>1, <2>2, <3>1
        <4> QED
          BY <1>2, <1>3, <3>1, <4>1
      <3> QED
        BY <1>1, <1>2, <1>5, <2>1, <2>2, <3>2 DEF LatchTracked, Were
    <2>3. CASE s.first # None /\ s.second = None
      <3>1. z.first.op = "read"
              => z.first.byte = s.count.hi /\ z.second.byte = s.count.lo
        BY <1>3, <1>5, <2>1, <2>3
      <3> QED
        BY <1>1, <1>2, <1>5, <2>1, <2>3, <3>1 DEF LatchTracked, Were, Counts
    <2>4. CASE s.first # None /\ s.second # None
      BY <1>2, <1>5, <2>1, <2>4 DEF LatchTracked, Were
    <2> QED
      BY <2>2, <2>3, <2>4
  <1>7. ReloadTracked(u, z, speaker)
    BY <1>1, <1>2, <1>4, <1>5 DEF ReloadTracked
  <1> QED
    BY <1>5, <1>6, <1>7 DEF Tracked, u, z, a

\* A counter of single bytes is nothing the properties are about.
LEMMA ReadSingleTracked ==
  ASSUME NEW t \in Timers, NEW s \in Tellings, NEW speaker \in BOOLEAN,
         Tracked(t, s, speaker), NEW b \in Bytes, t.mode \in {"lo", "hi"}
  PROVE  Tracked([t EXCEPT !.latched = FALSE], Noted(s, [op |-> "read", byte |-> b]), speaker)
  BY DEF Tracked, NotedInOrder, LatchTracked, ReloadTracked, Noted, None, Timers, Tellings,
         Accesses

\* What Write leaves of a counter.
Written(t, b) ==
  CASE t.mode = "latch" -> t
    [] t.mode = "lo"    -> [t EXCEPT !.countdown = ReplaceNthByte(0, @, b)]
    [] t.mode = "hi"    -> [t EXCEPT !.countdown = ReplaceNthByte(1, @, b)]
    [] t.mode = "lo hi" -> [t EXCEPT !.countdown = ReplaceNthByte(t.offset, @, b),
                                     !.offset = OtherByte(@)]

\* A byte written goes where the mode and the order of bytes say, and turns the order.
LEMMA WriteTracked ==
  ASSUME NEW t \in Timers, NEW s \in Tellings, NEW speaker \in BOOLEAN,
         Tracked(t, s, speaker), NEW b \in Bytes
  PROVE  Tracked(Written(t, b), Noted(s, [op |-> "write", byte |-> b]), speaker)
  <1> DEFINE a == [op |-> "write", byte |-> b]
             z == Noted(s, a)
             u == Written(t, b)
  <1>1. a \in Accesses /\ a.op = "write" /\ a.byte = b
    BY DEF Accesses
  <1>2. NotedInOrder(s) /\ LatchTracked(t, s) /\ ReloadTracked(t, s, speaker)
    BY DEF Tracked
  <1>3. /\ NotedInOrder(z) /\ z.mode = s.mode /\ z.count = s.count /\ z.aligned = s.aligned
        /\ \/ s.first = None /\ s.second = None /\ z.first = a /\ z.second = None
           \/ s.first # None /\ s.second = None /\ z.first = s.first /\ z.second = a
           \/ s.first # None /\ s.second # None /\ z = s
    BY <1>1, <1>2, NotedCases
  <1>4. t.mode = "latch" => u = t
    BY DEF Written
  <1>5. t.mode = "lo hi" =>
          /\ u.mode = "lo hi"
          /\ t.offset = 0 => u.offset = 1 /\ u.countdown.lo = b
    BY DEF Written, OtherByte, ReplaceNthByte, Timers, Counts
  <1> None.op = "none"
    BY DEF None
  <1> HIDE DEF a, z, u
  <1>6. LatchTracked(u, z)
    BY <1>1, <1>2, <1>3, <1>4 DEF LatchTracked, Were
  <1>7. ReloadTracked(u, z, speaker)
    <2> SUFFICES ASSUME s.mode = "lo hi", speaker => s.aligned PROVE ReloadTracked(u, z, speaker)
      BY <1>3 DEF ReloadTracked
    <2>1. /\ t.mode = "lo hi"
          /\ s.first = None => t.offset = 0
          /\ s.first.op = "write" /\ s.second = None
               => t.offset = 1 /\ t.countdown.lo = s.first.byte
      BY <1>2 DEF ReloadTracked
    <2>2. a # None
      BY <1>1
    <2>3. CASE s.first = None
      BY <1>1, <1>3, <1>5, <2>1, <2>2, <2>3 DEF ReloadTracked
    <2>4. CASE s.first # None
      BY <1>3, <1>5, <2>1, <2>2, <2>4 DEF ReloadTracked
    <2> QED
      BY <2>3, <2>4
  <1> QED
    BY <1>3, <1>6, <1>7 DEF Tracked, u, z, a

\* A control word: a latch shows the count of the moment, anything else starts a
\* pair, which is whole if the order was that of a new pair.
LEMMA CommandTracked ==
  ASSUME NEW t \in Timers, NEW n \in Counts, NEW mode \in Modes, NEW speaker \in BOOLEAN,
         ~speaker => t.offset = 0
  PROVE  Tracked(IF mode = "latch"
                   THEN [t EXCEPT !.mode = mode, !.latch = n, !.latched = TRUE, !.offset = 1]
                   ELSE [t EXCEPT !.mode = mode],
                 Told(mode, IF mode = "latch" THEN n ELSE Zero, t.offset = 0), speaker)
  <1> DEFINE s == Told(mode, IF mode = "latch" THEN n ELSE Zero, t.offset = 0)
             u == IF mode = "latch"
                    THEN [t EXCEPT !.mode = mode, !.latch = n, !.latched = TRUE, !.offset = 1]
                    ELSE [t EXCEPT !.mode = mode]
  <1>1. s.first = None /\ s.second = None /\ s.mode = mode /\ None.op = "none"
    BY DEF Told, None
  <1>2. s.aligned => t.offset = 0
    BY DEF Told
  <1>3. mode = "latch" => s.count = n
    BY DEF Told
  <1>4. u.mode = mode /\ (mode # "latch" => u.offset = t.offset)
    BY DEF Timers
  <1>5. mode = "latch" => u.latched /\ u.latch = n /\ u.offset = 1
    BY DEF Timers
  <1> HIDE DEF s, u
  <1>6. NotedInOrder(s)
    BY <1>1 DEF NotedInOrder
  <1>7. LatchTracked(u, s)
    BY <1>1, <1>3, <1>4, <1>5 DEF LatchTracked, Were
  <1>8. ReloadTracked(u, s, speaker)
    BY <1>1, <1>2, <1>4 DEF ReloadTracked
  <1> QED
    BY <1>6, <1>7, <1>8 DEF Tracked, u, s

-----------------------------------------------------------------------------
(* Actions.                                                                *)

\* Only the counter c is touched, and it stays tracked and a counter.
LEMMA OneCounter ==
  ASSUME IInv, NEW c \in Channels, NEW t \in Timers, NEW s \in Tellings,
         Tracked(t, s, c = Speaker),
         timers' = [timers EXCEPT ![c] = t], since' = [since EXCEPT ![c] = s]
  PROVE  /\ timers' \in [Channels -> Timers] /\ since' \in [Channels -> Tellings]
         /\ \A d \in Channels : Tracked(timers[d], since[d], d = Speaker)'
  <1>1. timers \in [Channels -> Timers] /\ since \in [Channels -> Tellings]
    BY DEF IInv, TypeOK
  <1>2. ASSUME NEW d \in Channels PROVE Tracked(timers'[d], since'[d], d = Speaker)
    <2>1. CASE d = c
      BY <1>1, <2>1
    <2>2. CASE d # c
      <3>1. timers'[d] = timers[d] /\ since'[d] = since[d]
        BY <1>1, <2>2
      <3> QED
        BY <3>1 DEF IInv
    <2> QED
      BY <2>1, <2>2
  <1> QED
    BY <1>1, <1>2

\* The invariant holds at boot.
LEMMA InitInv == Init => IInv
  <1> SUFFICES ASSUME Init PROVE IInv
    OBVIOUS
  <1> DEFINE t == [mode |-> "latch", offset |-> 0, latched |-> FALSE, latch |-> Zero,
                   countdown |-> [lo |-> Byte - 1, hi |-> Byte - 1]]
             s == Told("none", Zero, TRUE)
  <1>1. t \in Timers /\ s \in Tellings
    BY ByteTypes DEF Timers, Modes, Counts, Told, Tellings
  <1>2. \A c \in Channels : timers[c] = t /\ since[c] = s
    BY DEF Init
  <1>3. TypeOK
    BY <1>1 DEF Init, TypeOK
  <1>4. ASSUME NEW speaker PROVE Tracked(t, s, speaker)
    BY DEF Tracked, NotedInOrder, LatchTracked, ReloadTracked, Told, None
  <1>5. SoundsOnce
    BY DEF Init, SoundsOnce
  <1> QED
    BY <1>2, <1>3, <1>4, <1>5 DEF IInv

\* Reading a counter keeps the invariant.
LEMMA ReadInv == ASSUME IInv, NEW c \in Channels, Read(c) PROVE IInv'
  <1> DEFINE t == timers[c]
             s == since[c]
  <1>1. t \in Timers /\ s \in Tellings /\ Tracked(t, s, c = Speaker)
    BY DEF IInv, TypeOK
  <1>2. PICK n \in (IF t.latched THEN {t.latch} ELSE Shown(t)) :
          \/ /\ t.mode = "lo"
             /\ Accessed(c, "read", n.lo)
             /\ timers' = [timers EXCEPT ![c].latched = FALSE]
          \/ /\ t.mode = "hi"
             /\ Accessed(c, "read", n.hi)
             /\ timers' = [timers EXCEPT ![c].latched = FALSE]
          \/ /\ t.mode \in {"latch", "lo hi"}
             /\ Accessed(c, "read", NthByte(t.offset, n))
             /\ timers' = [timers EXCEPT ![c] = AfterRead(t)]
    BY DEF Read
  <1>3. n \in Counts /\ (t.latched => n = t.latch)
    BY <1>1 DEF Shown, Timers
  <1>4. \A b \in Bytes : [op |-> "read", byte |-> b] \in Accesses
    BY DEF Accesses
  <1>5. /\ timers' \in [Channels -> Timers] /\ since' \in [Channels -> Tellings]
        /\ \A d \in Channels : Tracked(timers[d], since[d], d = Speaker)'
    <2>1. CASE t.mode \in {"lo", "hi"}
      <3>1. PICK b \in Bytes : Accessed(c, "read", b) /\ timers' = [timers EXCEPT ![c].latched = FALSE]
        BY <1>2, <1>3, <2>1 DEF Counts
      <3>2. [t EXCEPT !.latched = FALSE] \in Timers
        BY <1>1 DEF Timers
      <3>3. Noted(s, [op |-> "read", byte |-> b]) \in Tellings
        BY <1>1, <1>4, NotedType
      <3>4. Tracked([t EXCEPT !.latched = FALSE], Noted(s, [op |-> "read", byte |-> b]), c = Speaker)
        BY <1>1, <2>1, ReadSingleTracked
      <3> QED
        BY <3>1, <3>2, <3>3, <3>4, OneCounter DEF Accessed
    <2>2. CASE t.mode \in {"latch", "lo hi"}
      <3>1. NthByte(t.offset, n) \in Bytes
        BY <1>3 DEF NthByte, Counts
      <3>2. AfterRead(t) \in Timers
        BY <1>1 DEF AfterRead, OtherByte, Timers
      <3>3. Noted(s, [op |-> "read", byte |-> NthByte(t.offset, n)]) \in Tellings
        BY <1>1, <1>4, <3>1, NotedType
      <3>4. Tracked(AfterRead(t), Noted(s, [op |-> "read", byte |-> NthByte(t.offset, n)]), c = Speaker)
        BY <1>1, <1>3, <2>2, ReadTracked
      <3>5. Accessed(c, "read", NthByte(t.offset, n)) /\ timers' = [timers EXCEPT ![c] = AfterRead(t)]
        BY <1>2, <2>2
      <3> QED
        BY <3>2, <3>3, <3>4, <3>5, OneCounter DEF Accessed
    <2> QED
      BY <1>1, <2>1, <2>2 DEF Timers, Modes
  <1> QED
    BY <1>5 DEF IInv, TypeOK, SoundsOnce, Read

\* A write is Written, and noted.
LEMMA WriteIsWritten ==
  ASSUME IInv, NEW c \in Channels, NEW b \in Bytes, Write(c, b)
  PROVE  /\ timers' = [timers EXCEPT ![c] = Written(timers[c], b)]
         /\ since' = [since EXCEPT ![c] = Noted(since[c], [op |-> "write", byte |-> b])]
  <1>1. timers[c] \in Timers
    BY DEF IInv, TypeOK
  <1>2. timers' = [timers EXCEPT ![c] = Written(timers[c], b)]
    BY <1>1 DEF Write, Written, IInv, TypeOK, Timers, Modes
  <1> QED
    BY <1>2 DEF Write, Accessed

\* Writing to a counter keeps the invariant.
LEMMA WriteInv == ASSUME IInv, NEW c \in Channels, NEW b \in Bytes, Write(c, b) PROVE IInv'
  <1> DEFINE t == timers[c]
             s == since[c]
             a == [op |-> "write", byte |-> b]
  <1>1. t \in Timers /\ s \in Tellings /\ Tracked(t, s, c = Speaker)
    BY DEF IInv, TypeOK
  <1>2. timers' = [timers EXCEPT ![c] = Written(t, b)]
    BY WriteIsWritten
  <1>3. since' = [since EXCEPT ![c] = Noted(s, a)]
    BY WriteIsWritten
  <1>4. Written(t, b) \in Timers
    BY <1>1, ReplacedType DEF Written, OtherByte, Timers, Modes
  <1>5. a \in Accesses
    BY DEF Accesses
  <1>6. Noted(s, a) \in Tellings
    BY <1>1, <1>5, NotedType
  <1>7. Tracked(Written(t, b), Noted(s, a), c = Speaker)
    BY <1>1, WriteTracked
  <1>8. /\ timers' \in [Channels -> Timers] /\ since' \in [Channels -> Tellings]
        /\ \A d \in Channels : Tracked(timers[d], since[d], d = Speaker)'
    BY <1>2, <1>3, <1>4, <1>6, <1>7, OneCounter
  <1> QED
    BY <1>8 DEF IInv, TypeOK, SoundsOnce, Write

\* An oscillator that is stopped was the only one.
LEMMA SilencedOne ==
  ASSUME IInv, Silenced PROVE audio' = Silence /\ oscillators' = 0
  BY DEF IInv, SoundsOnce, Silenced

\* A control word keeps the invariant.
LEMMA CommandInv ==
  ASSUME IInv, NEW c \in Channels, NEW mode \in Modes, Command(c, mode) PROVE IInv'
  <1> DEFINE t == IF c = Speaker THEN timers[c] ELSE ResetCounter(timers[c])
  <1>1. timers[c] \in Timers
    BY DEF IInv, TypeOK
  <1>2. t \in Timers
    BY <1>1 DEF ResetCounter, Timers
  <1>3. c # Speaker => t.offset = 0
    BY <1>1 DEF ResetCounter, Timers
  <1>4. PICK n \in Shown(t) :
       /\ timers' = [timers EXCEPT ![c] =
            IF mode = "latch" THEN [t EXCEPT !.mode = mode, !.latch = n, !.latched = TRUE, !.offset = 1]
            ELSE [t EXCEPT !.mode = mode]]
       /\ since' = [since EXCEPT ![c] = Told(mode, IF mode = "latch" THEN n ELSE Zero, t.offset = 0)]
    BY DEF Command
  <1> DEFINE u == IF mode = "latch"
                    THEN [t EXCEPT !.mode = mode, !.latch = n, !.latched = TRUE, !.offset = 1]
                    ELSE [t EXCEPT !.mode = mode]
             s == Told(mode, IF mode = "latch" THEN n ELSE Zero, t.offset = 0)
  <1> HIDE DEF t
  <1>5. n \in Counts
    BY DEF Shown
  <1>6. u \in Timers
    BY <1>2, <1>5 DEF Timers
  <1>7. s \in Tellings
    BY <1>5, ByteTypes DEF Told, Tellings
  <1>8. Tracked(u, s, c = Speaker)
    BY <1>2, <1>3, <1>5, CommandTracked
  <1>9. timers' = [timers EXCEPT ![c] = u] /\ since' = [since EXCEPT ![c] = s]
    BY <1>4
  <1> HIDE DEF u, s
  <1>10. /\ timers' \in [Channels -> Timers] /\ since' \in [Channels -> Tellings]
         /\ \A d \in Channels : Tracked(timers[d], since[d], d = Speaker)'
    BY <1>6, <1>7, <1>8, <1>9, OneCounter
  <1>11. SoundsOnce' /\ audio' \in Counts \cup {Silence} /\ oscillators' \in Nat
    BY SilencedOne DEF Command, IInv, TypeOK, SoundsOnce
  <1> QED
    BY <1>10, <1>11 DEF IInv, TypeOK, Command

\* A write to port 61h keeps the invariant.
LEMMA GateInv ==
  ASSUME IInv, NEW g \in SUBSET {"timer2", "speaker"}, Gate(g) PROVE IInv'
  <1>1. timers[Speaker].countdown \in Counts
    BY DEF IInv, TypeOK, Speaker, Channels, Timers
  <1>2. Silence \notin Counts
    BY PITAssumption
  <1>3. SoundsOnce' /\ audio' \in Counts \cup {Silence} /\ oscillators' \in Nat
    <2>1. CASE Enabled(gates) = Enabled(g) /\ UNCHANGED <<audio, oscillators>>
      BY <2>1 DEF Gate, IInv, TypeOK, SoundsOnce, Enabled
    <2>2. CASE ~Enabled(gates) /\ Enabled(g) /\ Started
      BY <1>1, <1>2, <2>2 DEF Gate, Started, IInv, SoundsOnce
    <2>3. CASE Enabled(gates) /\ ~Enabled(g) /\ Silenced
      BY <2>3, SilencedOne DEF SoundsOnce
    <2> QED
      BY <2>1, <2>2, <2>3 DEF Gate
  <1> QED
    BY <1>3 DEF Gate, IInv, TypeOK, Tracked, LatchTracked, ReloadTracked, NotedInOrder, Were

\* Every step keeps the invariant.
LEMMA NextInv == IInv /\ [Next]_vars => IInv'
  <1> SUFFICES ASSUME IInv, [Next]_vars PROVE IInv'
    OBVIOUS
  <1> uses \subseteq Channels
    BY PITAssumption DEF IInv, TypeOK
  <1>1. ASSUME NEW c \in uses, Read(c) PROVE IInv'
    BY <1>1, ReadInv
  <1>2. ASSUME NEW c \in uses, NEW b \in Bytes, Write(c, b) PROVE IInv'
    BY <1>2, WriteInv
  <1>3. ASSUME NEW c \in uses, NEW mode \in Modes, Command(c, mode) PROVE IInv'
    BY <1>3, CommandInv
  <1>4. CASE CommandNobody
    BY <1>4 DEF CommandNobody, IInv, TypeOK, SoundsOnce
  <1>5. ASSUME NEW g \in SUBSET {"timer2", "speaker"}, Gate(g) PROVE IInv'
    BY <1>5, GateInv
  <1>6. CASE UNCHANGED vars
    BY <1>6 DEF vars, IInv, TypeOK, SoundsOnce
  <1> QED
    BY <1>1, <1>2, <1>3, <1>4, <1>5, <1>6 DEF Next

-----------------------------------------------------------------------------
(* The pair of bytes that is written.                                      *)

Reloaded(d) ==
  /\ since[d].mode = "lo hi" /\ (d = Speaker => since[d].aligned)
  /\ since[d].second = None /\ Were(since'[d], "write", "write")
  => timers'[d].countdown = [lo |-> since'[d].first.byte, hi |-> since'[d].second.byte]

\* A counter whose note does not get a second byte has nothing to show.
LEMMA NotReloaded ==
  ASSUME NEW d \in Channels,
         since[d].second = None => since'[d].second.op # "write"
  PROVE  Reloaded(d)
  BY DEF Reloaded, Were

\* What a second byte written leaves: the low byte stays, the high one is new.
LEMMA SecondByte ==
  ASSUME NEW t \in Timers, NEW s \in Tellings, NEW b \in Bytes, NEW speaker \in BOOLEAN,
         NotedInOrder(s), ReloadTracked(t, s, speaker),
         s.mode = "lo hi", speaker => s.aligned, s.second = None,
         Were(Noted(s, [op |-> "write", byte |-> b]), "write", "write")
  PROVE  Written(t, b).countdown =
           [lo |-> Noted(s, [op |-> "write", byte |-> b]).first.byte,
            hi |-> Noted(s, [op |-> "write", byte |-> b]).second.byte]
  <1> DEFINE a == [op |-> "write", byte |-> b]
             z == Noted(s, a)
  <1>1. a \in Accesses /\ a.op = "write" /\ a.byte = b
    BY DEF Accesses
  <1>2. \/ s.first = None /\ z.second = None
        \/ s.first # None /\ z.first = s.first /\ z.second = a
    BY <1>1, NotedCases
  <1>3. z.first.op = "write" /\ z.second.op = "write"
    BY DEF Were
  <1> HIDE DEF a, z
  <1>4. s.first # None /\ z.first = s.first /\ z.second = a
    <2>1. None.op = "none"
      BY DEF None
    <2> QED
      BY <1>2, <1>3, <2>1
  <1>5. t.mode = "lo hi" /\ t.offset = 1 /\ t.countdown.lo = s.first.byte
    BY <1>3, <1>4 DEF ReloadTracked
  <1>6. Written(t, b).countdown = [lo |-> t.countdown.lo, hi |-> b]
    <2>1. Written(t, b).countdown = ReplaceNthByte(1, t.countdown, b)
      BY <1>5 DEF Written, Timers
    <2>2. ReplaceNthByte(1, t.countdown, b) = [lo |-> t.countdown.lo, hi |-> b]
      BY HighByte
    <2> QED
      BY <2>1, <2>2
  <1> QED
    BY <1>1, <1>4, <1>5, <1>6 DEF z, a

\* The second byte of a pair completes the countdown that the first began.
LEMMA WriteReloads ==
  ASSUME IInv, NEW c \in Channels, NEW b \in Bytes, Write(c, b), NEW d \in Channels
  PROVE  Reloaded(d)
  <1>1. /\ timers[c] \in Timers /\ since[c] \in Tellings
        /\ NotedInOrder(since[c]) /\ ReloadTracked(timers[c], since[c], c = Speaker)
    BY DEF IInv, TypeOK, Tracked
  <1>2. timers \in [Channels -> Timers] /\ since \in [Channels -> Tellings]
    BY DEF IInv, TypeOK
  <1>3. /\ timers' = [timers EXCEPT ![c] = Written(timers[c], b)]
        /\ since' = [since EXCEPT ![c] = Noted(since[c], [op |-> "write", byte |-> b])]
    BY WriteIsWritten
  <1>4. CASE d # c
    <2>1. since'[d] = since[d]
      BY <1>2, <1>3, <1>4
    <2> QED
      BY <2>1, NotReloaded DEF None
  <1>5. CASE d = c
    <2>1. /\ timers'[c] = Written(timers[c], b)
          /\ since'[c] = Noted(since[c], [op |-> "write", byte |-> b])
      BY <1>2, <1>3
    <2> QED
      BY <1>1, <1>5, <2>1, SecondByte DEF Reloaded
  <1> QED
    BY <1>4, <1>5

\* Every step that ends a pair of writes leaves the pair in the countdown.
LEMMA NextReloads == ASSUME IInv, [Next]_vars, NEW d \in Channels PROVE Reloaded(d)
  <1> uses \subseteq Channels
    BY PITAssumption DEF IInv, TypeOK
  <1> since \in [Channels -> Tellings] /\ None.op = "none"
    BY DEF IInv, TypeOK, None
  <1>1. ASSUME NEW c \in uses, Read(c) PROVE Reloaded(d)
    <2>1. PICK b : since' = [since EXCEPT ![c] = Noted(since[c], [op |-> "read", byte |-> b])]
      BY <1>1 DEF Read, Accessed
    <2>2. \A e \in Channels :
            since[e].second = None =>
              Noted(since[e], [op |-> "read", byte |-> b]).second.op # "write"
      BY DEF Noted, Tellings
    <2> QED
      BY <2>1, <2>2, NotReloaded
  <1>2. ASSUME NEW c \in uses, NEW b \in Bytes, Write(c, b) PROVE Reloaded(d)
    BY <1>2, WriteReloads
  <1>3. ASSUME NEW c \in uses, NEW mode \in Modes, Command(c, mode) PROVE Reloaded(d)
    <2> DEFINE t == IF c = Speaker THEN timers[c] ELSE ResetCounter(timers[c])
    <2>1. PICK n \in Shown(t) : since' = [since EXCEPT ![c] =
            Told(mode, IF mode = "latch" THEN n ELSE Zero, t.offset = 0)]
      BY <1>3, Zenon DEF Command
    <2> HIDE DEF t
    <2> QED
      BY <2>1, NotReloaded DEF Told
  <1>4. CASE UNCHANGED since
    BY <1>4, NotReloaded
  <1> QED
    BY <1>1, <1>2, <1>3, <1>4 DEF Next, CommandNobody, Gate, vars

-----------------------------------------------------------------------------
(* Theorems.                                                               *)

\* The invariant holds in every state of every behavior.
THEOREM Invariance == Spec => []IInv
  BY InitInv, NextInv, PTL DEF Spec

\* Counters, gates and histories stay what they are declared to be.
THEOREM TypeCorrect == Spec => []TypeOK
  BY Invariance, PTL DEF IInv

\* Sound comes out of one oscillator at most, and only while both gates are open.
THEOREM OneOscillatorOnly == Spec => []OneOscillator
  <1>1. IInv => OneOscillator
    BY DEF IInv, OneOscillator
  <1> QED
    BY Invariance, <1>1, PTL

\* The two bytes read after a latch belong to one count.
THEOREM LatchIsWhole == Spec => []LatchReadsOneCount
  <1>1. IInv => LatchReadsOneCount
    BY DEF IInv, Tracked, LatchTracked, LatchReadsOneCount
  <1> QED
    BY Invariance, <1>1, PTL

\* Two bytes written after a control word are the countdown, low byte first.
THEOREM ReloadAlwaysWhole == Spec => ReloadIsWhole
  <1>1. IInv /\ [Next]_vars => [\A d \in Channels : Reloaded(d)]_vars
    BY NextReloads
  <1>2. (\A d \in Channels : Reloaded(d)) =>
          \A c \in Channels :
            /\ since[c].mode = "lo hi" /\ (c = Speaker => since[c].aligned)
            /\ since[c].second = None /\ Were(since'[c], "write", "write")
            => timers'[c].countdown = [lo |-> since'[c].first.byte, hi |-> since'[c].second.byte]
    BY DEF Reloaded
  <1> QED
    BY Invariance, <1>1, <1>2, PTL DEF Spec, ReloadIsWhole

\* Counts go out and come in whole (readChannelCounterByte, writeChannelCounterByte).
THEOREM CountsAlwaysWhole == Spec => CountsAreWhole
  BY LatchIsWhole, ReloadAlwaysWhole DEF CountsAreWhole
=============================================================================
