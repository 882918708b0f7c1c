-------------------------------- MODULE PIT --------------------------------
(***************************************************************************)
(* The interval timer and the speaker (devices/PIT/*.ts), with the gates   *)
(* of the speaker in port 61h of the keyboard controller (Keyboard.ts).    *)
(* Counters are two bytes wide and their ports are one: which byte an      *)
(* access means depends on the mode of the counter and on the accesses     *)
(* before it.                                                              *)
(*                                                                         *)
(* An action is an access to a port of one byte.  The counters run with    *)
(* the clock of the page: what a counter shows is any value it can have.   *)
(* raiseIRQ is empty, so that nobody learns of a counter that rolls over.  *)
(***************************************************************************)
EXTENDS Integers

CONSTANTS
  Byte,      \* 0x100
  Silence,   \* no AudioContext
  Programs   \* what programs access: sets of channels

Channels == 0 .. 2
Speaker  == 2
Bytes    == 0 .. Byte - 1
Counts   == [lo : Bytes, hi : Bytes]
Modes    == {"latch", "hi", "lo", "lo hi"}   \* TimerAccessMode

ASSUME PITAssumption ==
  /\ Byte \in Nat \ {0} /\ Silence \notin Counts
  /\ Programs \subseteq SUBSET Channels

VARIABLES
  uses,         \* the counters that the running program accesses
  timers,       \* the three counters
  gates,        \* timer2Gate and speakerGate: the bits of port 61h that are set
  audio,        \* SpeakerTimer.audio: the countdown its oscillator was started with
  oscillators,  \* AudioContexts that were opened and not closed
  failed,       \* an access has thrown
  since         \* history: what each counter was told last and its accesses since

vars == <<uses, timers, gates, audio, oscillators, failed, since>>

\* extractNthByte, replaceNthByte
NthByte(nth, n) == IF nth = 0 THEN n.lo ELSE n.hi

OtherByte(nth) == IF nth = 0 THEN 1 ELSE 0

ReplaceNthByte(nth, n, b) ==
  IF nth = 0 THEN [lo |-> b, hi |-> n.hi] ELSE [lo |-> n.lo, hi |-> b]

AtMost(n, m) == n.hi < m.hi \/ (n.hi = m.hi /\ n.lo <= m.lo)

\* What getValue may answer: at most the countdown, and NaN for a countdown of
\* zero, whose bytes are zero.
Shown(t) == {n \in Counts : AtMost(n, t.countdown)}

Zero == [lo |-> 0, hi |-> 0]

None == [op |-> "none", byte |-> 0]

Told(mode, count, aligned) ==
  [mode |-> mode, count |-> count, aligned |-> aligned, first |-> None, second |-> None]

Init ==
  /\ uses \in Programs
  /\ timers = [c \in Channels |->
       [mode |-> "latch", offset |-> 0, latched |-> FALSE, latch |-> Zero,
        countdown |-> [lo |-> Byte - 1, hi |-> Byte - 1]]]
  /\ gates = {} /\ audio = Silence /\ oscillators = 0 /\ failed = FALSE
  /\ since = [c \in Channels |-> Told("none", Zero, TRUE)]

-----------------------------------------------------------------------------
(* Ports 40h to 42h.                                                       *)

\* What the properties are about is the first two accesses after a command.
Noted(s, a) ==
  IF s.first = None THEN [s EXCEPT !.first = a]
  ELSE IF s.second = None THEN [s EXCEPT !.second = a] ELSE s

Accessed(c, op, b) == since' = [since EXCEPT ![c] = Noted(@, [op |-> op, byte |-> b])]

\* The other byte is next; behind the low one the latch is open again.
AfterRead(t) ==
  [t EXCEPT !.offset = OtherByte(@), !.latched = @ /\ t.offset # 0]

\* readChannelCounterByte
Read(c) ==
  LET t == timers[c] IN
  /\ ~failed
  /\ \E n \in (IF t.latched THEN {t.latch} ELSE Shown(t)) :
       \/ /\ t.mode = "lo"
          /\ Accessed(c, "read", n.lo)
          /\ timers' = [timers EXCEPT ![c].latched = FALSE]
       \/ /\ t.mode = "hi"
          /\ Accessed(c, "read", n.hi)
          /\ timers' = [timers EXCEPT ![c].latched = FALSE]
       \/ /\ t.mode \in {"latch", "lo hi"}
          /\ Accessed(c, "read", NthByte(t.offset, n))
          /\ timers' = [timers EXCEPT ![c] = AfterRead(t)]
  /\ UNCHANGED <<uses, gates, audio, oscillators, failed>>

\* writeChannelCounterByte: nothing is written to a counter that was told to latch.
Write(c, b) ==
  LET t == timers[c] IN
  /\ ~failed
  /\ \/ /\ t.mode = "latch" /\ UNCHANGED timers
     \/ /\ t.mode \in {"lo", "hi"}
        /\ timers' = [timers EXCEPT ![c].countdown =
                        ReplaceNthByte(IF t.mode = "lo" THEN 0 ELSE 1, @, b)]
     \/ /\ t.mode = "lo hi"
        /\ timers' = [timers EXCEPT ![c].countdown = ReplaceNthByte(t.offset, @, b),
                                    ![c].offset = OtherByte(@)]
  /\ Accessed(c, "write", b)
  /\ UNCHANGED <<uses, gates, audio, oscillators, failed>>

-----------------------------------------------------------------------------
(* Ports 43h and 61h.                                                      *)

\* disableAudio
Silenced == audio' = Silence /\ oscillators' = oscillators - (IF audio = Silence THEN 0 ELSE 1)

\* Mutant of ResetCounter: the order of bytes is left where it was.
ResetKeepsOrder(t) == [t EXCEPT !.latch = t.countdown]

\* CountdownTimer.reset
ResetCounter(t) == [t EXCEPT !.latch = t.countdown, !.offset = 0]

\* The control byte; a latch shows the count of the moment, high byte first.
\* SpeakerTimer.reset silences the speaker, and resets nothing else.
Command(c, mode) ==
  LET t == IF c = Speaker THEN timers[c] ELSE ResetCounter(timers[c]) IN
  /\ ~failed
  /\ IF c = Speaker THEN Silenced ELSE UNCHANGED <<audio, oscillators>>
  /\ \E n \in Shown(t) :
       /\ timers' = [timers EXCEPT ![c] =
            IF mode = "latch" THEN [t EXCEPT !.mode = mode, !.latch = n, !.latched = TRUE, !.offset = 1]
            ELSE [t EXCEPT !.mode = mode]]
       /\ since' = [since EXCEPT ![c] = Told(mode, IF mode = "latch" THEN n ELSE Zero, t.offset = 0)]
  /\ UNCHANGED <<uses, gates, failed>>

\* The channel 3 has no timer: TypeError.
CommandNobody ==
  /\ ~failed /\ failed' = TRUE
  /\ UNCHANGED <<uses, timers, gates, audio, oscillators, since>>

\* isSpeakerEnabled
Enabled(g) == g = {"timer2", "speaker"}

\* initAudio: a new AudioContext, forgetting the one before; or the page has none
\* to give, and the exception is caught.
Started ==
  \/ audio' = timers[Speaker].countdown /\ oscillators' = oscillators + 1
  \/ UNCHANGED <<audio, oscillators>>

\* Mutant of Gate: the gates that were open before are not looked at.
GateAgain(g) ==
  /\ ~failed /\ gates' = g
  /\ IF Enabled(g) THEN Started ELSE Silenced
  /\ UNCHANGED <<uses, timers, failed, since>>

\* Port 61h
Gate(g) ==
  /\ ~failed /\ gates' = g
  /\ \/ Enabled(gates) = Enabled(g) /\ UNCHANGED <<audio, oscillators>>
     \/ ~Enabled(gates) /\ Enabled(g) /\ Started
     \/ Enabled(gates) /\ ~Enabled(g) /\ Silenced
  /\ UNCHANGED <<uses, timers, failed, since>>

Next ==
  \/ \E c \in uses :
       \/ Read(c) \/ \E b \in Bytes : Write(c, b)
       \/ \E mode \in Modes : Command(c, mode)
  \/ CommandNobody
  \/ \E g \in SUBSET {"timer2", "speaker"} : Gate(g)

Spec == Init /\ [][Next]_vars

-----------------------------------------------------------------------------
(* Properties.                                                             *)

Timers ==
  [mode : Modes, offset : {0, 1}, latched : BOOLEAN, latch : Counts, countdown : Counts]

Accesses == [op : {"none", "read", "write"}, byte : Bytes]

Tellings ==
  [mode : Modes \cup {"none"}, count : Counts, aligned : BOOLEAN,
   first : Accesses, second : Accesses]

\* Counters stay within two bytes and the order of bytes within a pair.
TypeOK ==
  /\ uses \in Programs
  /\ timers \in [Channels -> Timers] /\ gates \in SUBSET {"timer2", "speaker"}
  /\ audio \in Counts \cup {Silence} /\ oscillators \in Nat /\ failed \in BOOLEAN
  /\ since \in [Channels -> Tellings]

Were(s, first, second) == s.first.op = first /\ s.second.op = second

\* The two bytes that are read after a latch are those of one count, the one of
\* the moment of the latch, though the counter runs on between them
\* (latched, latchValue, accessByteOffset).
LatchReadsOneCount ==
  \A c \in Channels :
    since[c].mode = "latch" /\ Were(since[c], "read", "read")
      => since[c].count = [lo |-> since[c].second.byte, hi |-> since[c].first.byte]

\* The two bytes that are written after a control word are the countdown, low
\* byte first, whatever half finished pair of bytes came before the control word.
\* The speaker must have finished it: SpeakerTimer.reset keeps the order.
ReloadIsWhole ==
  [][\A c \in Channels :
       /\ since[c].mode = "lo hi" /\ (c = Speaker => since[c].aligned)
       /\ since[c].second = None /\ Were(since'[c], "write", "write")
       => timers'[c].countdown =
            [lo |-> since'[c].first.byte, hi |-> since'[c].second.byte]]_vars

\* A count of two bytes is one count on its way out and on its way in, though
\* it goes through an 8 bit port while the counter runs.
CountsAreWhole == []LatchReadsOneCount /\ ReloadIsWhole

SoundsOnce ==
  /\ oscillators = IF audio = Silence THEN 0 ELSE 1
  /\ audio # Silence => Enabled(gates)

\* Sound comes out of one oscillator at most, and only while both gates are open:
\* none is lost, however gates and control words of the speaker follow each
\* other (initAudio, disableAudio).
OneOscillator == TypeOK /\ SoundsOnce
=============================================================================
