---------------------------- MODULE LexerProofs ----------------------------
(***************************************************************************)
(* What the lexer promises, for every set of texts and configuration.      *)
(*                                                                         *)
(* Every character is read once.  An action flushes (part of) the buffer   *)
(* into a token, or makes a token of the characters it reads, or both: a   *)
(* lemma for each says what that does to the order of the tokens and to    *)
(* what they hold.                                                         *)
(*                                                                         *)
(* Words stay whole, and tokens tell where they are: what the buffer and   *)
(* the offset know of the characters next to them is carried on by each    *)
(* action (WordSoFar, Pointed), and handed to the tokens by a flush.       *)
(***************************************************************************)
EXTENDS Lexer, TLAPS, WellFoundedInduction, SequenceTheorems, FiniteSetTheorems

\* the order of tokens ts and of the word b, all of them before o
Ordered(ts, b, o) ==
  /\ Increasing(b) /\ \A p \in Positions(b) : p < o
  /\ \A i \in DOMAIN ts :
       /\ Increasing(ts[i].at)
       /\ Before(ts[i].at, b)
       /\ \A p \in Positions(ts[i].at) : p < o
       /\ \A j \in DOMAIN ts : i < j => Before(ts[i].at, ts[j].at)

\* p is in one of the tokens ts
Holds(ts, p) == \E i \in DOMAIN ts : p \in Positions(ts[i].at)

\* ts are the tokens with the word of the buffer, perhaps without its
\* carriage returns
Flushed(ts) ==
  /\ ts \in Seq(Tokens)
  /\ Ordered(ts, <<>>, offset)
  /\ \A p \in 1 .. Len(code) :
       /\ Holds(ts, p) => Taken(p)
       /\ Taken(p) => Holds(ts, p) \/ code[p] = "return"

\* The inductive invariant: nothing is taken that has not been read.
IInv == CharactersOnce /\ Ordered(tokens, tokenBuffer, offset)

-----------------------------------------------------------------------------
(* Least and greatest members.                                             *)

\* A set of numbers has a least member.
LEMMA Least ==
  ASSUME NEW S \in SUBSET Nat, S # {}
  PROVE  \E m \in S : \A n \in S : m <= n
  <1>1. IsWellFoundedOn(OpToRel(<, Nat), Nat)
    BY NatLessThanWellFounded
  <1>2. PICK m \in S : \A n \in S : ~(<<n, m>> \in OpToRel(<, Nat))
    BY <1>1, WFMin
  <1>3. ASSUME NEW n \in S PROVE m <= n
    <2>1. n \in Nat /\ m \in Nat
      OBVIOUS
    <2>2. n < m => <<n, m>> \in OpToRel(<, Nat)
      BY <2>1 DEF OpToRel
    <2>3. ~(n < m)
      BY <1>2, <2>2, Zenon
    <2> QED
      BY <2>1, <2>3
  <1> QED
    BY <1>3

\* A bounded set of numbers has a greatest member.
LEMMA Greatest ==
  ASSUME NEW N \in Nat, NEW S \in SUBSET (0 .. N), S # {}
  PROVE  \E m \in S : \A n \in S : n <= m
  <1> DEFINE Below == {N - n : n \in S}
  <1>1. Below \in SUBSET Nat /\ Below # {}
    <2>1. \A n \in S : N - n \in Nat
      OBVIOUS
    <2> QED
      BY <2>1
  <1>2. PICK b \in Below : \A n \in Below : b <= n
    BY <1>1, Least
  <1>3. PICK m \in S : b = N - m
    BY <1>2
  <1>4. ASSUME NEW n \in S PROVE n <= m
    <2>1. N - n \in Below
      OBVIOUS
    <2> QED
      BY <1>2, <1>3, <2>1, N - m <= N - n, SMT
  <1> QED
    BY <1>3, <1>4
-----------------------------------------------------------------------------
(* Sequences of positions.                                                 *)

\* A piece of a sequence of positions keeps its order.
LEMMA PieceFacts ==
  ASSUME NEW at \in Seq(1 .. Len(code)), Increasing(at),
         NEW m \in 1 .. Len(at), NEW n \in 1 .. Len(at)
  PROVE  /\ SubSeq(at, m, n) \in Seq(1 .. Len(code))
         /\ Increasing(SubSeq(at, m, n))
         /\ \A p \in 1 .. Len(code) :
              p \in Positions(SubSeq(at, m, n)) <=> \E i \in m .. n : p = at[i]
  <1> DEFINE s == SubSeq(at, m, n)
  <1>0. DOMAIN at = 1 .. Len(at) /\ Len(at) \in Nat
    OBVIOUS
  <1>1. m \in 1 .. Len(at) /\ n \in 1 .. Len(at) /\ Len(at) \in Nat /\ m \in Int /\ n \in Int
    BY <1>0
  <1>2. /\ s \in Seq(1 .. Len(code))
        /\ Len(s) = IF m <= n THEN n - m + 1 ELSE 0
        /\ \A i \in 1 .. Len(s) : s[i] = at[m + i - 1]
    <2>1. \A i \in m .. n : at[i] \in 1 .. Len(code)
      BY <1>1
    <2>2. /\ s \in Seq(1 .. Len(code))
          /\ Len(s) = IF m <= n THEN n - m + 1 ELSE 0
          /\ \A i \in 1 .. n - m + 1 : s[i] = at[m + i - 1]
      BY <1>1, <2>1, SubSeqProperties
    <2>3. m <= n => Len(s) = n - m + 1
      BY <2>2
    <2>4. ~(m <= n) => Len(s) = 0
      BY <2>2
    <2> HIDE DEF s
    <2>5. ASSUME NEW i \in 1 .. Len(s)
          PROVE  m <= n /\ i \in 1 .. n - m + 1
      BY <1>1, <2>3, <2>4
    <2> QED
      BY <2>2, <2>5
  <1>3. DOMAIN s = 1 .. Len(s) /\ Len(s) \in Nat
    BY <1>2
  <1> HIDE DEF s
  <1>6. ASSUME NEW i \in 1 .. Len(s)
        PROVE  i \in 1 .. n - m + 1 /\ m <= n
    BY <1>1, <1>2
  <1>4. Increasing(s)
    <2> SUFFICES ASSUME NEW i \in 1 .. Len(s), NEW j \in 1 .. Len(s), i < j
                 PROVE  s[i] < s[j]
      BY <1>3 DEF Increasing
    <2>1. m + i - 1 \in 1 .. Len(at) /\ m + j - 1 \in 1 .. Len(at) /\ m + i - 1 < m + j - 1
      BY <1>1, <1>6
    <2>2. at[m + i - 1] < at[m + j - 1]
      BY <1>0, <2>1 DEF Increasing
    <2> QED
      BY <1>2, <2>2
  <1>5. ASSUME NEW p \in 1 .. Len(code)
        PROVE  p \in Positions(s) <=> \E i \in m .. n : p = at[i]
    <2>1. ASSUME p \in Positions(s) PROVE \E i \in m .. n : p = at[i]
      <3>1. PICK i \in 1 .. Len(s) : p = s[i]
        BY <1>3, <2>1 DEF Positions
      <3>2. m + i - 1 \in m .. n
        BY <1>1, <1>6
      <3> QED
        BY <1>2, <3>1, <3>2
    <2>2. ASSUME NEW i \in m .. n, p = at[i] PROVE p \in Positions(s)
      <3>1. i - m + 1 \in 1 .. Len(s) /\ m + (i - m + 1) - 1 = i
        <4>1. m <= n /\ Len(s) = n - m + 1
          BY <1>1, <1>2
        <4> QED
          BY <1>1, <4>1
      <3>2. s[i - m + 1] = at[i]
        BY <1>2, <3>1
      <3> QED
        BY <1>3, <2>2, <3>1, <3>2 DEF Positions
    <2> QED
      BY <2>1, <2>2
  <1> QED
    BY <1>2, <1>4, <1>5 DEF s

\* Trimming a word keeps its order and drops carriage returns only.
LEMMA TrimFacts ==
  ASSUME NEW at \in Seq(1 .. Len(code)), Increasing(at)
  PROVE  /\ Trim(at) \in Seq(1 .. Len(code))
         /\ Increasing(Trim(at))
         /\ Positions(Trim(at)) \subseteq Positions(at)
         /\ \A p \in Positions(at) : p \in Positions(Trim(at)) \/ code[p] = "return"
  <1> DEFINE kept == {i \in DOMAIN at : code[at[i]] # "return"}
  <1>1. DOMAIN at = 1 .. Len(at) /\ Len(at) \in Nat
    OBVIOUS
  <1>2. CASE kept = {}
    <2>1. Trim(at) = <<>>
      BY <1>2 DEF Trim
    <2>2. \A i \in DOMAIN at : code[at[i]] = "return"
      BY <1>2
    <2> QED
      BY <2>1, <2>2 DEF Increasing, Positions
  <1>3. CASE kept # {}
    <2> DEFINE m == CHOOSE i \in kept : \A j \in kept : i <= j
               n == CHOOSE i \in kept : \A j \in kept : j <= i
    <2>1. kept \in SUBSET Nat /\ kept \in SUBSET (0 .. Len(at))
      BY <1>1
    <2>2. m \in kept /\ \A j \in kept : m <= j
      BY <1>3, <2>1, Least
    <2>3. n \in kept /\ \A j \in kept : j <= n
      BY <1>1, <1>3, <2>1, Greatest
    <2>4. Trim(at) = SubSeq(at, m, n)
      BY <1>3 DEF Trim
    <2>5. m \in DOMAIN at /\ n \in DOMAIN at
      BY <2>2, <2>3
    <2> HIDE DEF m, n, kept
    <2>6. /\ Trim(at) \in Seq(1 .. Len(code)) /\ Increasing(Trim(at))
          /\ \A p \in 1 .. Len(code) : p \in Positions(Trim(at)) <=> \E i \in m .. n : p = at[i]
      <3>1. m \in 1 .. Len(at) /\ n \in 1 .. Len(at)
        BY <1>1, <2>5
      <3>2. /\ SubSeq(at, m, n) \in Seq(1 .. Len(code)) /\ Increasing(SubSeq(at, m, n))
            /\ \A p \in 1 .. Len(code) :
                 p \in Positions(SubSeq(at, m, n)) <=> \E i \in m .. n : p = at[i]
        BY <3>1, PieceFacts
      <3> QED
        BY <2>4, <3>2
    <2>7. \A p \in Positions(Trim(at)) : p \in 1 .. Len(code)
      BY <2>6 DEF Positions
    <2>8. \A i \in m .. n : i \in DOMAIN at
      BY <1>1, <2>5
    <2>9. Positions(Trim(at)) \subseteq Positions(at)
      BY <2>6, <2>7, <2>8 DEF Positions
    <2>10. ASSUME NEW p \in Positions(at), code[p] # "return" PROVE p \in Positions(Trim(at))
      <3>1. PICK i \in DOMAIN at : p = at[i]
        BY DEF Positions
      <3>2. i \in kept
        BY <2>10, <3>1 DEF kept
      <3>3. i \in m .. n
        BY <1>1, <2>2, <2>3, <2>5, <3>2
      <3> QED
        BY <2>6, <3>1, <3>3
    <2> QED
      BY <2>6, <2>9, <2>10
  <1> QED
    BY <1>2, <1>3
-----------------------------------------------------------------------------
(* Tokens that are appended.                                               *)

\* What an index of the longer list of tokens means.
LEMMA AppendAt ==
  ASSUME NEW ts \in Seq(Tokens), NEW t \in Tokens
  PROVE  /\ Append(ts, t) \in Seq(Tokens)
         /\ DOMAIN ts = 1 .. Len(ts) /\ DOMAIN Append(ts, t) = 1 .. Len(ts) + 1
         /\ Len(ts) \in Nat
         /\ \A i \in 1 .. Len(ts) : Append(ts, t)[i] = ts[i]
         /\ Append(ts, t)[Len(ts) + 1] = t
  <1>1. Append(ts, t) \in Seq(Tokens) /\ Len(Append(ts, t)) = Len(ts) + 1
    BY AppendProperties
  <1>2. DOMAIN Append(ts, t) = 1 .. Len(Append(ts, t))
    BY <1>1
  <1> QED
    BY <1>1, <1>2, AppendProperties

\* The longer list holds what the shorter one and the token hold.
LEMMA HoldsAppend ==
  ASSUME NEW ts \in Seq(Tokens), NEW t \in Tokens, NEW p
  PROVE  Holds(Append(ts, t), p) <=> Holds(ts, p) \/ p \in Positions(t.at)
  <1> DEFINE us == Append(ts, t)
  <1>1. /\ DOMAIN ts = 1 .. Len(ts) /\ DOMAIN us = 1 .. Len(ts) + 1 /\ Len(ts) \in Nat
        /\ \A i \in 1 .. Len(ts) : us[i] = ts[i]
        /\ us[Len(ts) + 1] = t
    BY AppendAt
  <1> HIDE DEF us
  <1>2. ASSUME Holds(us, p) PROVE Holds(ts, p) \/ p \in Positions(t.at)
    <2>1. PICK i \in 1 .. Len(ts) + 1 : p \in Positions(us[i].at)
      BY <1>1, <1>2 DEF Holds
    <2>2. i \in 1 .. Len(ts) \/ i = Len(ts) + 1
      BY <1>1
    <2> QED
      BY <1>1, <2>1, <2>2 DEF Holds
  <1>3. ASSUME Holds(ts, p) PROVE Holds(us, p)
    <2>1. PICK i \in 1 .. Len(ts) : p \in Positions(ts[i].at)
      BY <1>1, <1>3 DEF Holds
    <2>2. i \in DOMAIN us /\ us[i] = ts[i]
      BY <1>1
    <2> QED
      BY <2>1, <2>2 DEF Holds
  <1>4. ASSUME p \in Positions(t.at) PROVE Holds(us, p)
    <2>1. Len(ts) + 1 \in DOMAIN us
      BY <1>1
    <2> QED
      BY <1>1, <1>4, <2>1 DEF Holds
  <1>5. Holds(us, p) <=> Holds(ts, p) \/ p \in Positions(t.at)
    BY <1>2, <1>3, <1>4
  <1> QED
    BY <1>5 DEF us

\* A token behind all others keeps the order.
LEMMA AppendOrdered ==
  ASSUME NEW ts \in Seq(Tokens), NEW t \in Tokens, NEW b, NEW o \in Nat, NEW n \in Nat, o <= n,
         Ordered(ts, b, o), Increasing(t.at),
         \A p \in Positions(t.at) : p < n,
         \A i \in DOMAIN ts : Before(ts[i].at, t.at),
         \A i \in DOMAIN ts : Positions(ts[i].at) \subseteq Nat
  PROVE  Ordered(Append(ts, t), <<>>, n)
  <1> DEFINE us == Append(ts, t)
  <1>1. /\ DOMAIN ts = 1 .. Len(ts) /\ DOMAIN us = 1 .. Len(ts) + 1 /\ Len(ts) \in Nat
        /\ \A i \in 1 .. Len(ts) : us[i] = ts[i]
        /\ us[Len(ts) + 1] = t
    BY AppendAt
  <1> HIDE DEF us
  <1>2. Increasing(<<>>) /\ Positions(<<>>) = {}
    BY DEF Increasing, Positions
  <1>3. \A i \in DOMAIN us : Before(us[i].at, <<>>)
    BY <1>2 DEF Before
  <1>4. ASSUME NEW i \in DOMAIN us PROVE Increasing(us[i].at) /\ \A p \in Positions(us[i].at) : p < n
    <2>1. CASE i \in 1 .. Len(ts)
      <3>1. us[i] = ts[i] /\ i \in DOMAIN ts
        BY <1>1, <2>1
      <3>2. Increasing(ts[i].at) /\ \A p \in Positions(ts[i].at) : p < o /\ p \in Nat
        BY <3>1 DEF Ordered
      <3>3. \A p \in Positions(ts[i].at) : p < n
        BY <3>2
      <3> QED
        BY <3>1, <3>2, <3>3
    <2>2. CASE i = Len(ts) + 1
      BY <1>1, <2>2
    <2> QED
      BY <1>1, <2>1, <2>2
  <1>5. ASSUME NEW i \in DOMAIN us, NEW j \in DOMAIN us, i < j PROVE Before(us[i].at, us[j].at)
    <2>1. i \in 1 .. Len(ts) /\ (j \in 1 .. Len(ts) \/ j = Len(ts) + 1)
      BY <1>1, <1>5
    <2>2. us[i] = ts[i] /\ i \in DOMAIN ts
      BY <1>1, <2>1
    <2>3. CASE j \in 1 .. Len(ts)
      <3>1. us[j] = ts[j] /\ j \in DOMAIN ts
        BY <1>1, <2>3
      <3>2. Before(ts[i].at, ts[j].at)
        BY <1>5, <2>2, <3>1 DEF Ordered
      <3> QED
        BY <2>2, <3>1, <3>2
    <2>4. CASE j = Len(ts) + 1
      BY <1>1, <2>2, <2>4
    <2> QED
      BY <2>1, <2>3, <2>4
  <1>6. Ordered(us, <<>>, n)
    BY <1>2, <1>3, <1>4, <1>5 DEF Ordered
  <1> QED
    BY <1>6 DEF us

\* Positions of tokens are positions of the source.
LEMMA PositionsOfTokens ==
  ASSUME code \in Seq(Characters), NEW ts \in Seq(Tokens)
  PROVE  \A i \in DOMAIN ts : Positions(ts[i].at) \subseteq Nat /\ Positions(ts[i].at) \subseteq 1 .. Len(code)
  <1> SUFFICES ASSUME NEW i \in DOMAIN ts 
                 PROVE  Positions(ts[i].at) \subseteq Nat /\ Positions(ts[i].at) \subseteq 1 .. Len(code)
    OBVIOUS
  <1>1. ts[i] \in Tokens
    OBVIOUS
  <1>2. ts[i].at \in Seq(1 .. Len(code))
    BY <1>1 DEF Tokens
  <1> DEFINE at == ts[i].at
  <1>3. at \in Seq(1 .. Len(code))
    BY <1>2
  <1> HIDE DEF at
  <1>4. Positions(at) \subseteq 1 .. Len(code)
    BY <1>3 DEF Positions
  <1>5. 1 .. Len(code) \subseteq Nat
    OBVIOUS
  <1> QED
    BY <1>4, <1>5 DEF at

\* A token of the word that was being read.
LEMMA FlushOrdered ==
  ASSUME code \in Seq(Characters), NEW ts \in Seq(Tokens), NEW t \in Tokens, NEW b, NEW o \in Nat,
         Ordered(ts, b, o), Increasing(t.at), Positions(t.at) \subseteq Positions(b)
  PROVE  Ordered(Append(ts, t), <<>>, o)
  <1>1. \A p \in Positions(t.at) : p < o
    BY DEF Ordered
  <1>2. \A i \in DOMAIN ts : Before(ts[i].at, t.at)
    BY DEF Ordered, Before
  <1>3. \A i \in DOMAIN ts : Positions(ts[i].at) \subseteq Nat
    BY PositionsOfTokens
  <1> QED
    BY <1>1, <1>2, <1>3, AppendOrdered

\* A token of characters that are read just now.
LEMMA ReadOrdered ==
  ASSUME code \in Seq(Characters), NEW ts \in Seq(Tokens), NEW t \in Tokens, NEW o \in Nat, NEW n \in Nat, o <= n,
         Ordered(ts, <<>>, o), Increasing(t.at), Positions(t.at) \subseteq o .. n - 1
  PROVE  Ordered(Append(ts, t), <<>>, n)
  <1>1. \A p \in Positions(t.at) : p < n
    OBVIOUS
  <1>2. \A i \in DOMAIN ts : Positions(ts[i].at) \subseteq Nat
    BY PositionsOfTokens
  <1>3. \A i \in DOMAIN ts : Before(ts[i].at, t.at)
    <2> SUFFICES ASSUME NEW i \in DOMAIN ts, NEW p \in Positions(ts[i].at), NEW q \in Positions(t.at)
                 PROVE  p < q
      BY DEF Before
    <2>1. p < o /\ p \in Nat
      BY <1>2 DEF Ordered
    <2>2. q \in o .. n - 1
      OBVIOUS
    <2> QED
      BY <2>1, <2>2
  <1> QED
    BY <1>1, <1>2, <1>3, AppendOrdered
-----------------------------------------------------------------------------
(* The word of the buffer becomes a token.                                 *)

\* Only what has been read is taken.
LEMMA TakenIsRead ==
  ASSUME IInv, NEW p, Taken(p)
  PROVE  p < offset
  BY DEF IInv, Ordered, Taken

\* Tokens are well formed if their parts are.
LEMMA TokenType ==
  ASSUME TypeOK, NEW at \in Seq(1 .. Len(code)), NEW col \in Int, NEW kind \in Kinds,
         NEW type \in {"QUOTE", "BRACKET", "KEYWORD", "NUMBER", "terminal", "EOL", "EOF"}
  PROVE  Token(type, kind, at, col) \in Tokens /\ Token(type, kind, at, col).at = at
  BY DEF Token, Tokens, TypeOK

\* So is a word, whatever it means.
LEMMA WordType ==
  ASSUME TypeOK, NEW at \in Seq(1 .. Len(code))
  PROVE  ParseToken(at) \in Tokens /\ ParseToken(at).at = at
  <1> DEFINE type == IF IsNumber(Text(at)) THEN "NUMBER" ELSE "KEYWORD"
             kind == KindOf(Text(at))
  <1>1. type \in {"QUOTE", "BRACKET", "KEYWORD", "NUMBER", "terminal", "EOL", "EOF"}
    OBVIOUS
  <1>2. kind \in Kinds
    <2>1. \A word \in DOMAIN config.words : config.words[word] \in Kinds
      BY LexerAssumption DEF TypeOK, Kinds
    <2>2. ASSUME NEW text PROVE KindOf(text) \in Kinds
      <3>1. CASE text \in DOMAIN config.words
        BY <2>1, <3>1 DEF KindOf, Kinds, WordKinds
      <3>2. CASE text \notin DOMAIN config.words
        BY <3>2 DEF KindOf, Kinds, WordKinds
      <3> QED
        BY <3>1, <3>2
    <2> QED
      BY <2>2
  <1>3. column - Len(at) \in Int
    BY DEF TypeOK
  <1>4. ParseToken(at) = Token(type, kind, at, column - Len(at))
    BY DEF ParseToken
  <1> HIDE DEF type, kind
  <1> QED
    BY <1>1, <1>2, <1>3, <1>4, TokenType

\* A token of the whole word, or of all but its carriage returns.
LEMMA FlushWord ==
  ASSUME IInv, NEW t \in Tokens, Increasing(t.at), Positions(t.at) \subseteq Positions(tokenBuffer),
         \A p \in Positions(tokenBuffer) : p \in Positions(t.at) \/ code[p] = "return"
  PROVE  Flushed(Append(tokens, t))
  <1>1. tokens \in Seq(Tokens) /\ offset \in Nat /\ code \in Seq(Characters)
    BY LexerAssumption DEF IInv, CharactersOnce, TypeOK
  <1>2. Ordered(Append(tokens, t), <<>>, offset)
    BY <1>1, FlushOrdered DEF IInv
  <1>3. Append(tokens, t) \in Seq(Tokens)
    BY <1>1, AppendAt
  <1>4. ASSUME NEW p \in 1 .. Len(code)
        PROVE  /\ Holds(Append(tokens, t), p) => Taken(p)
               /\ Taken(p) => Holds(Append(tokens, t), p) \/ code[p] = "return"
    <2>1. Taken(p) <=> p \in Positions(tokenBuffer) \/ Holds(tokens, p)
      BY DEF Taken, Holds
    <2>2. Holds(Append(tokens, t), p) <=> Holds(tokens, p) \/ p \in Positions(t.at)
      BY <1>1, HoldsAppend
    <2> QED
      BY <2>1, <2>2
  <1> QED
    BY <1>2, <1>3, <1>4 DEF Flushed

\* Nothing is flushed when the word is empty, or has only carriage returns.
LEMMA FlushNothing ==
  ASSUME IInv, \A p \in Positions(tokenBuffer) : code[p] = "return"
  PROVE  Flushed(tokens)
  <1>1. Ordered(tokens, <<>>, offset)
    BY DEF IInv, Ordered, Increasing, Before, Positions
  <1>2. \A p : Taken(p) <=> p \in Positions(tokenBuffer) \/ Holds(tokens, p)
    BY DEF Taken, Holds
  <1> QED
    BY <1>1, <1>2 DEF Flushed, IInv, CharactersOnce, TypeOK

\* WithWord flushes a word, or none.
LEMMA WithWordFlushes ==
  ASSUME IInv, NEW b \in Seq(1 .. Len(code)), Increasing(b),
         Positions(b) \subseteq Positions(tokenBuffer),
         \A p \in Positions(tokenBuffer) : p \in Positions(b) \/ code[p] = "return"
  PROVE  Flushed(WithWord(b))
  <1>1. CASE b = <<>>
    <2>1. Positions(b) = {}
      BY <1>1 DEF Positions
    <2>2. Flushed(tokens)
      BY <2>1, FlushNothing
    <2> QED
      BY <1>1, <2>2 DEF WithWord
  <1>2. CASE b # <<>>
    <2>1. ParseToken(b) \in Tokens /\ ParseToken(b).at = b
      BY WordType DEF IInv, CharactersOnce
    <2>2. Flushed(Append(tokens, ParseToken(b)))
      BY <2>1, FlushWord
    <2> QED
      BY <1>2, <2>2 DEF WithWord
  <1> QED
    BY <1>1, <1>2

\* The three ways in which the actions flush.
LEMMA Flushes ==
  ASSUME IInv
  PROVE  /\ Flushed(WithWord(tokenBuffer))
         /\ Flushed(WithWord(Trim(tokenBuffer)))
         /\ Flushed(WithPrefix)
  <1>1. tokenBuffer \in Seq(1 .. Len(code)) /\ Increasing(tokenBuffer) /\ TypeOK
    BY DEF IInv, CharactersOnce, TypeOK, Ordered
  <1>2. Flushed(WithWord(tokenBuffer))
    BY <1>1, WithWordFlushes
  <1>3. Flushed(WithWord(Trim(tokenBuffer)))
    BY <1>1, TrimFacts, WithWordFlushes
  <1>4. Flushed(WithPrefix)
    <2> DEFINE t == Token("KEYWORD", "BRACKET_PREFIX", tokenBuffer, column)
    <2>1. column \in Int
      BY <1>1 DEF TypeOK
    <2>2. t \in Tokens /\ t.at = tokenBuffer
      <3>1. "BRACKET_PREFIX" \in Kinds
        BY DEF Kinds
      <3> QED
        BY <1>1, <2>1, <3>1, TokenType
    <2> HIDE DEF t
    <2>3. Flushed(Append(tokens, t))
      BY <1>1, <2>2, FlushWord
    <2> QED
      BY <1>2, <2>3 DEF WithPrefix, t
  <1> QED
    BY <1>2, <1>3, <1>4
-----------------------------------------------------------------------------
(* What a step keeps.                                                      *)

\* Nothing is lost if a step gives up carriage returns only, takes only what
\* it reads, and takes or drops all of it.
LEMMA StepKeeps ==
  ASSUME IInv, code' = code, offset' \in Int,
         Ordered(tokens', tokenBuffer', offset'),
         \A p \in 1 .. Len(code) : Taken(p)' => Taken(p) \/ p >= offset,
         \A p \in 1 .. Len(code) : Taken(p) => Taken(p)' \/ code[p] = "return",
         \A p \in 1 .. Len(code) : p >= offset /\ p < offset' =>
           Taken(p)' \/ Dropped(p)' \/ code[p] \in {"blank", "return"}
  PROVE  NothingIsLost' /\ InOrder'
  <1>1. InOrder'
    BY DEF Ordered, InOrder
  <1>2. NothingIsLost'
    <2> SUFFICES ASSUME NEW p \in 1 .. Len(code), p < offset'
                 PROVE  Taken(p)' \/ Dropped(p)' \/ code[p] \in {"blank", "return"}
      BY DEF NothingIsLost
    <2>1. CASE p >= offset
      BY <2>1
    <2>2. CASE p < offset
      <3>1. CASE Taken(p)
        BY <3>1
      <3>2. CASE code[p] \in {"blank", "return"}
        BY <3>2
      <3>3. CASE Dropped(p)
        <4>1. PICK q \in 1 .. p :
                /\ ~Taken(q)
                /\ \/ code[q] = "comment" /\ SameLine(q, p)
                   \/ code[q] = "backslash" /\ SameLine(q, p - 1)
                   \/ code[q] = "backslash" /\ code[p - 1] = "newline" /\ SameLine(q, p - 2)
          BY <3>3 DEF Dropped
        <4>2. q \in 1 .. Len(code) /\ q < offset
          BY <2>2, LexerAssumption DEF IInv, CharactersOnce, TypeOK
        <4>3. ~Taken(q)'
          <5>1. ~(q >= offset)
            BY <4>2, LexerAssumption DEF IInv, CharactersOnce, TypeOK
          <5> QED
            BY <4>1, <4>2, <5>1
        <4>4. \A m, n : SameLine(m, n)' <=> SameLine(m, n)
          BY DEF SameLine
        <4>5. Dropped(p)'
          BY <4>1, <4>3, <4>4 DEF Dropped
        <4> QED
          BY <4>5
      <3> QED
        BY <2>2, <3>1, <3>2, <3>3 DEF IInv, CharactersOnce, NothingIsLost
    <2>3. p >= offset \/ p < offset
      BY LexerAssumption DEF IInv, CharactersOnce, TypeOK
    <2> QED
      BY <2>1, <2>2, <2>3
  <1> QED
    BY <1>1, <1>2

\* A step that flushes the word and makes a token of all that it reads.
LEMMA TokenStep ==
  ASSUME IInv, NEW ts, Flushed(ts), NEW t \in Tokens, NEW n \in Nat, offset <= n,
         Increasing(t.at), Positions(t.at) \subseteq offset .. n - 1,
         \A p \in 1 .. Len(code) : p >= offset /\ p < n => p \in Positions(t.at),
         code' = code, offset' = n, tokens' = Append(ts, t), tokenBuffer' = <<>>
  PROVE  /\ tokens' \in Seq(Tokens)
         /\ Ordered(tokens', tokenBuffer', offset')
         /\ NothingIsLost' /\ InOrder'
  <1>1. ts \in Seq(Tokens) /\ offset \in Nat /\ code \in Seq(Characters)
    BY LexerAssumption DEF Flushed, IInv, CharactersOnce, TypeOK
  <1>2. tokens' \in Seq(Tokens)
    BY <1>1, AppendAt
  <1>3. Ordered(tokens', tokenBuffer', offset')
    BY <1>1, ReadOrdered DEF Flushed
  <1>4. \A p : Taken(p)' <=> Holds(tokens', p)
    BY DEF Taken, Holds, Positions
  <1>5. \A p : Holds(tokens', p) <=> Holds(ts, p) \/ p \in Positions(t.at)
    BY <1>1, HoldsAppend
  <1>6. \A p \in 1 .. Len(code) : Taken(p)' => Taken(p) \/ p >= offset
    <2>1. \A p \in Positions(t.at) : p >= offset
      BY <1>1
    <2> QED
      BY <1>4, <1>5, <2>1 DEF Flushed
  <1>7. \A p \in 1 .. Len(code) : Taken(p) => Taken(p)' \/ code[p] = "return"
    BY <1>4, <1>5 DEF Flushed
  <1>8. \A p \in 1 .. Len(code) : p >= offset /\ p < offset' => Taken(p)'
    BY <1>4, <1>5
  <1>9. offset' \in Int
    OBVIOUS
  <1> QED
    BY <1>2, <1>3, <1>6, <1>7, <1>8, <1>9, StepKeeps

\* A step that takes nothing, and drops what it reads.
LEMMA DropStep ==
  ASSUME IInv, code' = code, offset' \in Int, offset <= offset',
         tokens' = tokens, tokenBuffer' = tokenBuffer,
         \A p \in 1 .. Len(code) : p >= offset /\ p < offset' => Dropped(p)
  PROVE  /\ Ordered(tokens', tokenBuffer', offset')
         /\ NothingIsLost' /\ InOrder'
  <1>1. \A p : Taken(p)' <=> Taken(p)
    BY DEF Taken
  <1>2. \A m, n : SameLine(m, n)' <=> SameLine(m, n)
    BY DEF SameLine
  <1>3. \A p : Dropped(p)' <=> Dropped(p)
    BY <1>1, <1>2 DEF Dropped
  <1>4. /\ tokens \in Seq(Tokens) /\ tokenBuffer \in Seq(1 .. Len(code))
        /\ offset \in Int /\ code \in Seq(Characters)
    BY LexerAssumption DEF IInv, CharactersOnce, TypeOK
  <1>5. Ordered(tokens', tokenBuffer', offset')
    <2>1. \A i \in DOMAIN tokens : \A p \in Positions(tokens[i].at) : p < offset /\ p \in Nat
      BY <1>4, PositionsOfTokens DEF IInv, Ordered
    <2>2. \A p \in Positions(tokenBuffer) : p < offset /\ p \in Nat
      <3>1. Positions(tokenBuffer) \subseteq 1 .. Len(code) /\ 1 .. Len(code) \subseteq Nat
        BY <1>4 DEF Positions
      <3> QED
        BY <3>1 DEF IInv, Ordered
    <2>3. \A i \in DOMAIN tokens : \A p \in Positions(tokens[i].at) : p < offset'
      <3> SUFFICES ASSUME NEW i \in DOMAIN tokens, NEW p \in Positions(tokens[i].at)
                   PROVE  p < offset'
        OBVIOUS
      <3>1. p < offset /\ p \in Nat
        BY <2>1
      <3> QED
        BY <1>4, <3>1
    <2>4. \A p \in Positions(tokenBuffer) : p < offset'
      BY <1>4, <2>2
    <2> QED
      BY <2>3, <2>4 DEF IInv, Ordered
  <1>6. \A p \in 1 .. Len(code) : Taken(p)' => Taken(p) \/ p >= offset
    BY <1>1
  <1>7. \A p \in 1 .. Len(code) : Taken(p) => Taken(p)' \/ code[p] = "return"
    BY <1>1
  <1>8. \A p \in 1 .. Len(code) : p >= offset /\ p < offset' => Dropped(p)'
    BY <1>3
  <1> QED
    BY <1>5, <1>6, <1>7, <1>8, StepKeeps
-----------------------------------------------------------------------------
(* The actions.                                                            *)

\* Where a step may leave the offset, and what it does to the place.
LEMMA AdvanceType ==
  ASSUME IInv, NEW n \in Int, offset <= n, n <= Len(code) + 1, Advance(n)
  PROVE  /\ offset' = n + 1 /\ offset' \in 1 .. Len(code) + 2
         /\ row' \in Nat /\ column' \in Nat
         /\ code' = code /\ config' = config /\ result' = result
  <1>1. /\ code \in Seq(Characters) /\ offset \in 1 .. Len(code) + 2
        /\ row \in Nat /\ column \in Nat /\ Len(code) \in Nat
    BY LexerAssumption DEF IInv, CharactersOnce, TypeOK
  <1>2. offset' = n + 1 /\ code' = code /\ config' = config /\ result' = result
    BY DEF Advance
  <1>3. row' \in Nat
    BY <1>1 DEF Advance
  <1>4. column' \in Nat
    <2>1. column' = IF Here = "newline" THEN 0 ELSE column + (n + 1 - offset)
      BY DEF Advance
    <2>2. column + (n + 1 - offset) \in Nat
      BY <1>1
    <2> QED
      BY <2>1, <2>2
  <1> QED
    BY <1>1, <1>2, <1>3, <1>4

\* The parts of the invariant that no other lemma is about.
LEMMA TypeStep ==
  ASSUME IInv, code' = code, config' = config, offset' \in 1 .. Len(code) + 2,
         tokenBuffer' \in Seq(1 .. Len(code)), tokens' \in Seq(Tokens),
         row' \in Nat, column' \in Nat, result' \in {result, "done"},
         Ordered(tokens', tokenBuffer', offset'), NothingIsLost', InOrder'
  PROVE  IInv'
  <1>1. Tokens' = Tokens
    BY DEF Tokens
  <1>2. TypeOK'
    BY <1>1 DEF IInv, CharactersOnce, TypeOK
  <1> QED
    BY <1>2 DEF IInv, CharactersOnce

\* A token of the characters from here to n, with the word before it.
LEMMA ReadStep ==
  ASSUME IInv, result = "reading", NEW ts, Flushed(ts), NEW n \in 1 .. Len(code), offset <= n,
         NEW type \in {"QUOTE", "BRACKET", "KEYWORD", "NUMBER", "terminal", "EOL", "EOF"},
         NEW kind \in Kinds, NEW at \in Seq(1 .. Len(code)), Increasing(at),
         Positions(at) = offset .. n,
         tokens' = Append(ts, Token(type, kind, at, column)), tokenBuffer' = <<>>,
         Advance(n)
  PROVE  IInv'
  <1>1. /\ code \in Seq(Characters) /\ Len(code) \in Nat /\ offset \in Nat
        /\ TypeOK /\ column \in Int
    BY LexerAssumption DEF IInv, CharactersOnce, TypeOK
  <1>2. n \in Int /\ n <= Len(code) + 1 /\ n + 1 \in Nat /\ offset <= n + 1
    BY <1>1
  <1>3. /\ offset' = n + 1 /\ offset' \in 1 .. Len(code) + 2
        /\ row' \in Nat /\ column' \in Nat
        /\ code' = code /\ config' = config /\ result' = result
    BY <1>2, AdvanceType
  <1> DEFINE t == Token(type, kind, at, column)
  <1>4. t \in Tokens /\ t.at = at
    BY <1>1, TokenType
  <1> HIDE DEF t
  <1>5. Positions(t.at) \subseteq offset .. (n + 1) - 1
    BY <1>1, <1>4
  <1>6. \A p \in 1 .. Len(code) : p >= offset /\ p < n + 1 => p \in Positions(t.at)
    BY <1>1, <1>4
  <1>7. tokens' = Append(ts, t)
    BY DEF t
  <1>8. /\ tokens' \in Seq(Tokens)
        /\ Ordered(tokens', tokenBuffer', offset')
        /\ NothingIsLost' /\ InOrder'
    BY <1>2, <1>3, <1>4, <1>5, <1>6, <1>7, TokenStep
  <1>9. tokenBuffer' \in Seq(1 .. Len(code))
    OBVIOUS
  <1> QED
    BY <1>3, <1>8, <1>9, TypeStep

\* A stretch of the source in the order of the source.
LEMMA StretchFacts ==
  ASSUME IInv, NEW n \in 1 .. Len(code), offset <= n
  PROVE  /\ Stretch(n) \in Seq(1 .. Len(code))
         /\ Increasing(Stretch(n))
         /\ Positions(Stretch(n)) = offset .. n
  <1>1. code \in Seq(Characters) /\ Len(code) \in Nat /\ offset \in Nat /\ offset >= 1 /\ n \in Nat
    BY LexerAssumption DEF IInv, CharactersOnce, TypeOK
  <1> DEFINE L == n + 1 - offset
             s == Stretch(n)
  <1>2. L \in Nat
    BY <1>1
  <1>3. s = [i \in 1 .. L |-> offset + i - 1]
    BY DEF Stretch
  <1>4. \A i \in 1 .. L : offset + i - 1 \in 1 .. Len(code) /\ offset + i - 1 \in offset .. n
    BY <1>1
  <1>5. \A p \in offset .. n : p - offset + 1 \in 1 .. L /\ offset + (p - offset + 1) - 1 = p
    BY <1>1
  <1>6. \A i, j \in 1 .. L : i < j => offset + i - 1 < offset + j - 1
    BY <1>1
  <1> HIDE DEF L
  <1>7. s \in Seq(1 .. Len(code))
    BY <1>2, <1>3, <1>4, IsASeq
  <1>8. DOMAIN s = 1 .. L /\ \A i \in 1 .. L : s[i] = offset + i - 1
    BY <1>3
  <1> HIDE DEF s
  <1>9. Increasing(s)
    BY <1>6, <1>8 DEF Increasing
  <1>10. Positions(s) = offset .. n
    BY <1>4, <1>5, <1>8 DEF Positions
  <1> QED
    BY <1>7, <1>9, <1>10 DEF s

\* The newline of LineEnd exists if the rest of the source has a newline.
LEMMA LineEndFacts ==
  ASSUME IInv
  PROVE  /\ LineEnd = {} => SameLine(offset + 1, Len(code))
         /\ \A n \in LineEnd : /\ n \in offset + 1 .. Len(code)
                               /\ code[n] = "newline" /\ SameLine(offset + 1, n - 1)
  <1>1. code \in Seq(Characters) /\ Len(code) \in Nat /\ offset \in Nat
    BY LexerAssumption DEF IInv, CharactersOnce, TypeOK
  <1>2. \A n \in LineEnd : /\ n \in offset + 1 .. Len(code)
                           /\ code[n] = "newline" /\ SameLine(offset + 1, n - 1)
    BY DEF LineEnd, SameLine
  <1>3. ASSUME ~SameLine(offset + 1, Len(code)) PROVE LineEnd # {}
    <2> DEFINE S == {n \in offset + 1 .. Len(code) : code[n] = "newline"}
    <2>1. S # {} /\ S \in SUBSET Nat
      BY <1>1, <1>3 DEF SameLine
    <2>2. PICK n \in S : \A m \in S : n <= m
      BY <2>1, Least
    <2>3. ASSUME NEW m \in offset + 1 .. n - 1 PROVE code[m] # "newline"
      <3>1. n \in Nat /\ n \in offset + 1 .. Len(code)
        BY <2>1
      <3>2. m \in offset + 1 .. Len(code) /\ ~(n <= m)
        BY <1>1, <3>1
      <3> QED
        BY <2>2, <3>2
    <2>4. n \in LineEnd
      BY <2>2, <2>3 DEF LineEnd
    <2> QED
      BY <2>4
  <1> QED
    BY <1>2, <1>3

\* A remark and the end of a broken line are dropped, whatever the offset.
LEMMA Drops ==
  ASSUME IInv, NEW m \in Int, offset <= m, m <= Len(code) + 1, Advance(m),
         UNCHANGED <<tokens, tokenBuffer>>,
         \A p \in 1 .. Len(code) : p >= offset /\ p < m + 1 => Dropped(p)
  PROVE  IInv'
  <1>1. /\ offset' = m + 1 /\ offset' \in 1 .. Len(code) + 2
        /\ row' \in Nat /\ column' \in Nat
        /\ code' = code /\ config' = config /\ result' = result
    BY AdvanceType
  <1>2. code \in Seq(Characters) /\ Len(code) \in Nat /\ offset \in Int
    BY LexerAssumption DEF IInv, CharactersOnce, TypeOK
  <1>3. offset' \in Int /\ offset <= offset'
    BY <1>1, <1>2
  <1>4. Ordered(tokens', tokenBuffer', offset') /\ NothingIsLost' /\ InOrder'
    BY <1>1, <1>3, DropStep
  <1>5. tokenBuffer' \in Seq(1 .. Len(code)) /\ tokens' \in Seq(Tokens)
    BY DEF IInv, CharactersOnce, TypeOK
  <1> QED
    BY <1>1, <1>4, <1>5, TypeStep

\* A remark is dropped up to the newline, which stays.
LEMMA CommentKeeps == ASSUME IInv, Comment PROVE IInv'
  <1>1. /\ code \in Seq(Characters) /\ Len(code) \in Nat /\ offset \in 1 .. Len(code)
        /\ code[offset] = "comment" /\ ~Taken(offset)
    <2>1. offset \in 1 .. Len(code) + 2 /\ offset <= Len(code) /\ code \in Seq(Characters)
      BY LexerAssumption DEF IInv, CharactersOnce, TypeOK, Comment, Reading
    <2>2. offset \in 1 .. Len(code)
      BY <2>1
    <2>3. ~Taken(offset)
      BY <2>2, TakenIsRead
    <2> QED
      BY <2>1, <2>2, <2>3 DEF Comment, Here, At
  <1>2. ASSUME NEW p \in 1 .. Len(code), p >= offset, SameLine(offset + 1, p) PROVE Dropped(p)
    <2>1. SameLine(offset, p)
      <3> SUFFICES ASSUME NEW k \in offset .. p PROVE code[k] # "newline"
        BY DEF SameLine
      <3>1. k = offset \/ k \in offset + 1 .. p
        BY <1>1
      <3> QED
        BY <1>1, <1>2, <3>1 DEF SameLine
    <2>2. offset \in 1 .. p
      BY <1>1, <1>2
    <2> QED
      BY <1>1, <2>1, <2>2 DEF Dropped
  <1>3. CASE LineEnd = {} /\ Advance(Len(code) + 1)
    <2>1. ASSUME NEW p \in 1 .. Len(code), p >= offset PROVE Dropped(p)
      <3>1. SameLine(offset + 1, Len(code))
        BY <1>3, LineEndFacts
      <3>2. SameLine(offset + 1, p)
        BY <1>1, <3>1 DEF SameLine
      <3> QED
        BY <1>2, <2>1, <3>2
    <2>2. Len(code) + 1 \in Int /\ offset <= Len(code) + 1 /\ Len(code) + 1 <= Len(code) + 1
      BY <1>1
    <2> QED
      BY <1>3, <2>1, <2>2, Drops DEF Comment
  <1>4. ASSUME NEW n \in LineEnd, Advance(n - 1) PROVE IInv'
    <2>1. n \in offset + 1 .. Len(code) /\ SameLine(offset + 1, n - 1)
      BY LineEndFacts
    <2>2. n - 1 \in Int /\ offset <= n - 1 /\ n - 1 <= Len(code) + 1
      BY <1>1, <2>1
    <2>3. ASSUME NEW p \in 1 .. Len(code), p >= offset, p < (n - 1) + 1 PROVE Dropped(p)
      <3>1. SameLine(offset + 1, p)
        BY <1>1, <2>1, <2>3 DEF SameLine
      <3> QED
        BY <1>2, <2>3, <3>1
    <2> QED
      BY <1>4, <2>2, <2>3, Drops DEF Comment
  <1> QED
    BY <1>3, <1>4 DEF Comment

\* What is read next is there, and nobody has it.
LEMMA HereFacts ==
  ASSUME IInv, Reading
  PROVE  /\ code \in Seq(Characters) /\ Len(code) \in Nat /\ offset \in 1 .. Len(code)
         /\ Here = code[offset] /\ Here \in Characters /\ ~Taken(offset)
  <1>1. code \in Seq(Characters) /\ Len(code) \in Nat /\ offset \in 1 .. Len(code)
    BY LexerAssumption DEF IInv, CharactersOnce, TypeOK, Reading
  <1>2. Here = code[offset]
    BY <1>1 DEF Here, At
  <1>3. code[offset] \in Characters
    BY <1>1
  <1>4. ~Taken(offset)
    BY <1>1, TakenIsRead
  <1> QED
    BY <1>1, <1>2, <1>3, <1>4

\* A broken line is dropped with its newline and the character behind it.
LEMMA ContinuationKeeps == ASSUME IInv, Continuation PROVE IInv'
  <1>1. /\ code \in Seq(Characters) /\ Len(code) \in Nat /\ offset \in 1 .. Len(code)
        /\ code[offset] = "backslash" /\ ~Taken(offset)
    BY HereFacts DEF Continuation
  <1>2. ASSUME NEW p \in Int, p >= offset, SameLine(offset + 1, p) PROVE SameLine(offset, p)
    <2> SUFFICES ASSUME NEW k \in offset .. p PROVE code[k] # "newline"
      BY DEF SameLine
    <2>1. k = offset \/ k \in offset + 1 .. p
      BY <1>1
    <2> QED
      BY <1>1, <1>2, <2>1 DEF SameLine
  <1>3. CASE LineEnd = {} /\ Advance(Len(code) + 1)
    <2>1. ASSUME NEW p \in 1 .. Len(code), p >= offset PROVE Dropped(p)
      <3>1. SameLine(offset + 1, Len(code))
        BY <1>3, LineEndFacts
      <3>2. SameLine(offset, Len(code))
        BY <1>1, <1>2, <3>1
      <3>3. SameLine(offset, p - 1) /\ offset \in 1 .. p
        BY <1>1, <2>1, <3>2 DEF SameLine
      <3> QED
        BY <1>1, <3>3 DEF Dropped
    <2>2. Len(code) + 1 \in Int /\ offset <= Len(code) + 1 /\ Len(code) + 1 <= Len(code) + 1
      BY <1>1
    <2> QED
      BY <1>3, <2>1, <2>2, Drops DEF Continuation
  <1>4. ASSUME NEW n \in LineEnd, Advance(n + 1) PROVE IInv'
    <2>1. n \in offset + 1 .. Len(code) /\ SameLine(offset + 1, n - 1) /\ code[n] = "newline"
      BY LineEndFacts
    <2>2. n + 1 \in Int /\ offset <= n + 1 /\ n + 1 <= Len(code) + 1
      BY <1>1, <2>1
    <2>3. SameLine(offset, n - 1)
      <3>1. n - 1 \in Int /\ n - 1 >= offset
        BY <1>1, <2>1
      <3> QED
        BY <1>2, <2>1, <3>1
    <2>4. ASSUME NEW p \in 1 .. Len(code), p >= offset, p < (n + 1) + 1 PROVE Dropped(p)
      <3>1. offset \in 1 .. p /\ n \in Nat
        BY <1>1, <2>1, <2>4
      <3>2. CASE p = n + 1
        <4>1. code[p - 1] = "newline" /\ SameLine(offset, p - 2)
          BY <2>1, <2>3, <3>1, <3>2
        <4> QED
          BY <1>1, <3>1, <4>1 DEF Dropped
      <3>3. CASE p <= n
        <4>1. SameLine(offset, p - 1)
          BY <1>1, <2>3, <3>1, <3>3 DEF SameLine
        <4> QED
          BY <1>1, <3>1, <4>1 DEF Dropped
      <3> QED
        BY <2>4, <3>1, <3>2, <3>3
    <2> QED
      BY <1>4, <2>2, <2>4, Drops DEF Continuation
  <1> QED
    BY <1>3, <1>4 DEF Continuation

\* An error changes the result only.
LEMMA ThrowKeeps ==
  ASSUME IInv, NEW error \in {"UNKNOWN_TOKEN", "UNTERMINATED_STRING"}, Throw(error)
  PROVE  IInv'
  <1>1. UNCHANGED <<code, config, offset, tokenBuffer, tokens, row, column>> /\ result' = error
    BY DEF Throw
  <1>2. TypeOK'
    BY <1>1 DEF IInv, CharactersOnce, TypeOK, Tokens
  <1>3. \A p : Taken(p)' <=> Taken(p)
    BY <1>1 DEF Taken
  <1>4. \A m, n : SameLine(m, n)' <=> SameLine(m, n)
    BY <1>1 DEF SameLine
  <1>5. NothingIsLost'
    BY <1>1, <1>3, <1>4 DEF IInv, CharactersOnce, NothingIsLost, Dropped
  <1>6. InOrder' /\ Ordered(tokens', tokenBuffer', offset')
    BY <1>1 DEF IInv, CharactersOnce, InOrder
  <1> QED
    BY <1>2, <1>5, <1>6 DEF IInv, CharactersOnce

\* A content that is read to its end, or not.
LEMMA FetchKeeps ==
  ASSUME IInv, Reading, NEW type \in {"QUOTE", "BRACKET"}, NEW ts, Flushed(ts),
         NEW ends \in SUBSET (offset + 1 .. Len(code)), Fetch(type, ts, ends)
  PROVE  IInv'
  <1>1. CASE Throw("UNTERMINATED_STRING")
    BY <1>1, ThrowKeeps
  <1>2. ASSUME NEW p \in ends, tokens' = Append(ts, Token(type, Here, Stretch(p), column)),
               tokenBuffer' = <<>>, Advance(p)
        PROVE  IInv'
    <2>1. p \in 1 .. Len(code) /\ offset <= p
      BY HereFacts
    <2>2. /\ Stretch(p) \in Seq(1 .. Len(code)) /\ Increasing(Stretch(p))
          /\ Positions(Stretch(p)) = offset .. p
      BY <2>1, StretchFacts
    <2>3. Here \in Kinds
      BY HereFacts DEF Kinds
    <2> QED
      BY <1>2, <2>1, <2>2, <2>3, ReadStep DEF Reading
  <1> QED
    BY <1>1, <1>2 DEF Fetch

\* A quote is one token, and needs an empty buffer.
LEMMA QuoteKeeps == ASSUME IInv, Quote PROVE IInv'
  <1>1. CASE tokenBuffer # <<>>
    BY <1>1, ThrowKeeps DEF Quote
  <1>2. CASE tokenBuffer = <<>>
    <2>1. Flushed(tokens)
      BY <1>2, FlushNothing DEF Positions
    <2>2. QuoteEnd \in SUBSET (offset + 1 .. Len(code))
      BY DEF QuoteEnd
    <2> QED
      BY <1>2, <2>1, <2>2, FetchKeeps DEF Quote
  <1> QED
    BY <1>1, <1>2

\* Two characters in a row.
LEMMA TwoFacts ==
  ASSUME NEW S \in SUBSET Nat, NEW o \in S, o + 1 \in S
  PROVE  /\ <<o, o + 1>> \in Seq(S)
         /\ Increasing(<<o, o + 1>>)
         /\ Positions(<<o, o + 1>>) = {o, o + 1}
  <1>1. <<o, o + 1>> \in Seq(S)
    OBVIOUS
  <1>2. DOMAIN <<o, o + 1>> = {1, 2} /\ <<o, o + 1>>[1] = o /\ <<o, o + 1>>[2] = o + 1
    OBVIOUS
  <1> DEFINE s == <<o, o + 1>>
  <1>3. DOMAIN s = {1, 2} /\ s[1] = o /\ s[2] = o + 1 /\ o \in Nat
    BY <1>2
  <1> HIDE DEF s
  <1>4. Increasing(s)
    BY <1>3 DEF Increasing
  <1>5. Positions(s) = {o, o + 1}
    BY <1>3 DEF Positions
  <1> QED
    BY <1>1, <1>4, <1>5 DEF s

\* A token of one or two characters.
LEMMA CharTokenKeeps ==
  ASSUME IInv, Reading, NEW n \in offset .. offset + 1, n <= Len(code), NEW ts, Flushed(ts),
         NEW type \in {"BRACKET", "terminal", "EOL"}, NEW kind \in Kinds,
         NEW at, at = IF n = offset THEN <<offset>> ELSE <<offset, offset + 1>>,
         tokens' = Append(ts, Token(type, kind, at, column)), tokenBuffer' = <<>>,
         Advance(n)
  PROVE  IInv'
  <1>1. offset \in 1 .. Len(code) /\ Len(code) \in Nat
    BY HereFacts
  <1>2. n \in 1 .. Len(code) /\ offset <= n
    BY <1>1
  <1>3. at \in Seq(1 .. Len(code)) /\ Increasing(at) /\ Positions(at) = offset .. n
    <2>1. CASE n = offset
      <3>1. at = <<offset>>
        BY <2>1
      <3> QED
        BY <1>1, <2>1, <3>1 DEF Increasing, Positions
    <2>2. CASE n = offset + 1
      <3>1. at = <<offset, offset + 1>>
        BY <1>1, <2>2
      <3>2. offset \in 1 .. Len(code) /\ offset + 1 \in 1 .. Len(code)
        BY <1>1, <1>2, <2>2
      <3>3. /\ <<offset, offset + 1>> \in Seq(1 .. Len(code))
            /\ Increasing(<<offset, offset + 1>>)
            /\ Positions(<<offset, offset + 1>>) = {offset, offset + 1}
        <4>1. (1 .. Len(code)) \in SUBSET Nat
          BY <1>1
        <4> QED
          BY <3>2, <4>1, TwoFacts
      <3>4. offset .. n = {offset, offset + 1}
        BY <1>1, <2>2
      <3> QED
        BY <3>1, <3>3, <3>4
    <2> QED
      BY <1>1, <2>1, <2>2
  <1> QED
    BY <1>2, <1>3, ReadStep DEF Reading

\* A bracket is a token, or its content is, behind the prefix.
LEMMA BracketKeeps == ASSUME IInv, Bracket PROVE IInv'
  <1>1. CASE Throw("UNKNOWN_TOKEN")
    BY <1>1, ThrowKeeps
  <1>2. CASE Fetch("BRACKET", WithPrefix, BracketEnd)
    <2>1. BracketEnd \in SUBSET (offset + 1 .. Len(code))
      BY DEF BracketEnd
    <2> QED
      BY <1>2, <2>1, Flushes, FetchKeeps DEF Bracket
  <1>3. CASE /\ tokens' = Append(WithPrefix, Token("BRACKET", Here, <<offset>>, column))
             /\ tokenBuffer' = <<>>
             /\ Advance(offset)
    <2>1. Here \in Kinds /\ offset \in offset .. offset + 1 /\ offset <= Len(code)
      BY HereFacts DEF Bracket, Kinds
    <2>2. Flushed(WithPrefix)
      BY Flushes
    <2> QED
      BY <1>3, <2>1, <2>2, CharTokenKeeps DEF Bracket
  <1> QED
    BY <1>1, <1>2, <1>3 DEF Bracket

\* The terminals and the end of a line.
LEMMA AppendCharTokenKeeps ==
  ASSUME IInv, Reading, NEW n \in offset .. offset + 1, n <= Len(code),
         NEW type \in {"terminal", "EOL"},
         NEW at, at = IF n = offset THEN <<offset>> ELSE <<offset, offset + 1>>,
         AppendCharToken(type, at), Advance(n)
  PROVE  IInv'
  <1>1. Flushed(WithWord(Trim(tokenBuffer)))
    BY Flushes
  <1>2. "none" \in Kinds
    BY DEF Kinds
  <1> QED
    BY <1>1, <1>2, CharTokenKeeps DEF AppendCharToken

\* Terminals of one character and line ends are tokens behind the word.
LEMMA CharKeeps == ASSUME IInv, EndOfLine \/ Terminal PROVE IInv'
  <1>1. Reading /\ offset \in offset .. offset + 1 /\ offset <= Len(code)
    BY HereFacts DEF EndOfLine, Terminal
  <1> QED
    BY <1>1, AppendCharTokenKeeps DEF EndOfLine, Terminal

\* So are terminals of two characters, of which both are there.
LEMMA PairKeeps == ASSUME IInv, PairTerminal PROVE IInv'
  <1>1. Reading /\ offset \in 1 .. Len(code) /\ Len(code) \in Nat
    BY HereFacts DEF PairTerminal
  <1>2. At(offset + 1) # "undefined"
    BY DEF PairTerminal, IsPair, Ahead, Pairs
  <1>3. offset + 1 <= Len(code)
    BY <1>1, <1>2 DEF At
  <1>4. offset + 1 \in offset .. offset + 1 /\ offset + 1 # offset
    BY <1>1
  <1> QED
    BY <1>1, <1>3, <1>4, AppendCharTokenKeeps DEF PairTerminal

\* A letter goes to the end of the word.
LEMMA LetterKeeps == ASSUME IInv, Letter PROVE IInv'
  <1>1. /\ offset \in 1 .. Len(code) /\ Len(code) \in Nat /\ code \in Seq(Characters)
        /\ tokenBuffer' = Append(tokenBuffer, offset) /\ tokens' = tokens
    BY HereFacts DEF Letter
  <1>2. /\ offset' = offset + 1 /\ offset' \in 1 .. Len(code) + 2
        /\ row' \in Nat /\ column' \in Nat
        /\ code' = code /\ config' = config /\ result' = result
    <2>1. offset \in Int /\ offset <= offset /\ offset <= Len(code) + 1 /\ Advance(offset)
      BY <1>1 DEF Letter
    <2> QED
      BY <2>1, AdvanceType
  <1>3. tokenBuffer \in Seq(1 .. Len(code)) /\ tokens \in Seq(Tokens)
    BY DEF IInv, CharactersOnce, TypeOK
  <1> DEFINE b == tokenBuffer
             L == Len(b)
             c == Append(b, offset)
  <1>4. /\ c \in Seq(1 .. Len(code)) /\ L \in Nat /\ Len(c) = L + 1
        /\ \A i \in 1 .. L : c[i] = b[i]
        /\ c[L + 1] = offset
    BY <1>1, <1>3, AppendProperties
  <1>5. DOMAIN b = 1 .. L /\ DOMAIN c = 1 .. L + 1
    BY <1>3, <1>4
  <1>6. \A i \in 1 .. L : b[i] < offset /\ b[i] \in Nat
    <2>1. \A i \in 1 .. L : b[i] \in 1 .. Len(code)
      BY <1>3, <1>5
    <2>2. \A i \in 1 .. L : b[i] \in Positions(b)
      BY <1>5 DEF Positions
    <2> QED
      BY <1>1, <2>1, <2>2 DEF IInv, Ordered
  <1>7. tokenBuffer' = c
    BY <1>1
  <1>8. Increasing(b)
    BY DEF IInv, Ordered
  <1> HIDE DEF b, L, c
  <1>9. Increasing(c)
    <2> SUFFICES ASSUME NEW i \in 1 .. L + 1, NEW j \in 1 .. L + 1, i < j PROVE c[i] < c[j]
      BY <1>5 DEF Increasing
    <2>1. i \in 1 .. L /\ (j \in 1 .. L \/ j = L + 1)
      BY <1>4
    <2>2. CASE j \in 1 .. L
      BY <1>4, <1>5, <1>8, <2>1, <2>2 DEF Increasing
    <2>3. CASE j = L + 1
      BY <1>4, <1>6, <2>1, <2>3
    <2> QED
      BY <2>1, <2>2, <2>3
  <1>10. \A p : p \in Positions(c) <=> p \in Positions(b) \/ p = offset
    <2>1. ASSUME NEW p \in Positions(c) PROVE p \in Positions(b) \/ p = offset
      <3>1. PICK i \in 1 .. L + 1 : p = c[i]
        BY <1>5 DEF Positions
      <3>2. i \in 1 .. L \/ i = L + 1
        BY <1>4
      <3> QED
        BY <1>4, <1>5, <3>1, <3>2 DEF Positions
    <2>2. ASSUME NEW p \in Positions(b) PROVE p \in Positions(c)
      <3>1. PICK i \in 1 .. L : p = b[i]
        BY <1>5 DEF Positions
      <3>2. i \in 1 .. L + 1 /\ c[i] = b[i]
        BY <1>4
      <3> QED
        BY <1>5, <3>1, <3>2 DEF Positions
    <2>3. offset \in Positions(c)
      <3>1. L + 1 \in 1 .. L + 1
        BY <1>4
      <3> QED
        BY <1>4, <1>5, <3>1 DEF Positions
    <2> QED
      BY <2>1, <2>2, <2>3
  <1>11. \A i \in DOMAIN tokens : \A p \in Positions(tokens[i].at) : p < offset /\ p \in Nat
    BY <1>1, <1>3, PositionsOfTokens DEF IInv, Ordered
  <1>12. Ordered(tokens, c, offset + 1)
    <2>1. \A p \in Positions(c) : p < offset + 1
      <3>1. \A p \in Positions(b) : p < offset /\ p \in Nat
        BY <1>5, <1>6 DEF Positions
      <3> QED
        BY <1>1, <1>10, <3>1
    <2>2. ASSUME NEW i \in DOMAIN tokens
          PROVE  Before(tokens[i].at, c) /\ \A p \in Positions(tokens[i].at) : p < offset + 1
      <3>1. Before(tokens[i].at, b)
        BY DEF IInv, Ordered, b
      <3>2. \A p \in Positions(tokens[i].at) : p < offset /\ p \in Nat
        BY <1>11
      <3>3. \A p \in Positions(tokens[i].at) : p < offset + 1
        BY <1>1, <3>2
      <3> QED
        BY <1>10, <3>1, <3>2, <3>3 DEF Before
    <2> QED
      BY <1>9, <2>1, <2>2 DEF IInv, Ordered
  <1>13. Ordered(tokens', tokenBuffer', offset')
    BY <1>1, <1>2, <1>7, <1>12
  <1>14. \A p : Taken(p)' <=> Taken(p) \/ p = offset
    BY <1>1, <1>7, <1>10 DEF Taken, b
  <1>15. /\ \A p \in 1 .. Len(code) : Taken(p)' => Taken(p) \/ p >= offset
         /\ \A p \in 1 .. Len(code) : Taken(p) => Taken(p)'
         /\ \A p \in 1 .. Len(code) : p >= offset /\ p < offset' => Taken(p)'
    BY <1>1, <1>2, <1>14
  <1>16. NothingIsLost' /\ InOrder'
    <2>1. offset' \in Int
      BY <1>2
    <2> QED
      BY <1>2, <1>13, <1>15, <2>1, StepKeeps
  <1>17. tokenBuffer' \in Seq(1 .. Len(code)) /\ tokens' \in Seq(Tokens)
    BY <1>1, <1>3, <1>4, <1>7
  <1> QED
    BY <1>2, <1>13, <1>16, <1>17, TypeStep

\* A blank ends the word and is not kept.
LEMMA BlankKeeps == ASSUME IInv, Blank PROVE IInv'
  <1> DEFINE ts == WithWord(tokenBuffer)
  <1>1. Flushed(ts)
    BY Flushes
  <1>2. /\ offset \in 1 .. Len(code) /\ Len(code) \in Nat /\ code \in Seq(Characters)
        /\ code[offset] = "blank" /\ tokens' = ts /\ tokenBuffer' = <<>>
    BY HereFacts DEF Blank
  <1>3. /\ offset' = offset + 1 /\ offset' \in 1 .. Len(code) + 2
        /\ row' \in Nat /\ column' \in Nat
        /\ code' = code /\ config' = config /\ result' = result
    <2>1. offset \in Int /\ offset <= offset /\ offset <= Len(code) + 1 /\ Advance(offset)
      BY <1>2 DEF Blank
    <2> QED
      BY <2>1, AdvanceType
  <1> HIDE DEF ts
  <1>4. Ordered(ts, <<>>, offset + 1)
    <2>1. \A i \in DOMAIN ts : \A p \in Positions(ts[i].at) : p < offset /\ p \in Nat
      BY <1>1, <1>2, PositionsOfTokens DEF Flushed, Ordered
    <2>2. ASSUME NEW i \in DOMAIN ts, NEW p \in Positions(ts[i].at) PROVE p < offset + 1
      <3>1. p < offset /\ p \in Nat
        BY <2>1
      <3> QED
        BY <1>2, <3>1
    <2>3. Positions(<<>>) = {}
      BY DEF Positions
    <2> QED
      BY <1>1, <2>2, <2>3 DEF Flushed, Ordered
  <1>5. Ordered(tokens', tokenBuffer', offset')
    BY <1>2, <1>3, <1>4
  <1>6. \A p : Taken(p)' <=> Holds(ts, p)
    BY <1>2 DEF Taken, Holds, Positions
  <1>7. /\ \A p \in 1 .. Len(code) : Taken(p)' => Taken(p) \/ p >= offset
        /\ \A p \in 1 .. Len(code) : Taken(p) => Taken(p)' \/ code[p] = "return"
    BY <1>1, <1>6 DEF Flushed
  <1>8. \A p \in 1 .. Len(code) : p >= offset /\ p < offset' => code[p] \in {"blank", "return"}
    <2> SUFFICES ASSUME NEW p \in 1 .. Len(code), p >= offset, p < offset'
                 PROVE  code[p] \in {"blank", "return"}
      OBVIOUS
    <2>1. p = offset
      BY <1>2, <1>3
    <2> QED
      BY <1>2, <2>1
  <1>9. NothingIsLost' /\ InOrder'
    <2>1. offset' \in Int
      BY <1>2, <1>3
    <2> QED
      BY <1>3, <1>5, <1>7, <1>8, <2>1, StepKeeps
  <1>10. tokenBuffer' \in Seq(1 .. Len(code)) /\ tokens' \in Seq(Tokens)
    BY <1>1, <1>2 DEF Flushed
  <1> QED
    BY <1>3, <1>5, <1>9, <1>10, TypeStep

\* The end of the source flushes the word and reads nothing.
LEMMA EndOfFileKeeps == ASSUME IInv, EndOfFile PROVE IInv'
  <1> DEFINE ts == WithWord(tokenBuffer)
             t  == Token("EOF", "none", <<>>, column)
  <1>1. Flushed(ts)
    BY Flushes
  <1>2. /\ offset \in 1 .. Len(code) + 2 /\ Len(code) \in Nat /\ TypeOK /\ column \in Int
        /\ row \in Nat /\ column \in Nat
    BY LexerAssumption DEF IInv, CharactersOnce, TypeOK
  <1>3. /\ tokens' = Append(ts, t) /\ tokenBuffer' = <<>> /\ result' = "done"
        /\ UNCHANGED <<code, config, offset, row, column>>
    BY DEF EndOfFile
  <1>4. t \in Tokens /\ t.at = <<>>
    <2>1. "none" \in Kinds /\ <<>> \in Seq(1 .. Len(code))
      BY DEF Kinds
    <2> QED
      BY <1>2, <2>1, TokenType
  <1> HIDE DEF ts, t
  <1>5. Increasing(t.at) /\ Positions(t.at) = {}
    BY <1>4 DEF Increasing, Positions
  <1>6. \A p \in 1 .. Len(code) : ~(p >= offset /\ p < offset)
    BY <1>2
  <1>7. offset \in Nat /\ offset <= offset
    BY <1>2
  <1>8. /\ tokens' \in Seq(Tokens)
        /\ Ordered(tokens', tokenBuffer', offset')
        /\ NothingIsLost' /\ InOrder'
    BY <1>1, <1>3, <1>4, <1>5, <1>6, <1>7, TokenStep
  <1>9. tokenBuffer' \in Seq(1 .. Len(code))
    BY <1>3
  <1> QED
    BY <1>2, <1>3, <1>8, <1>9, TypeStep

-----------------------------------------------------------------------------
(* Every action keeps the invariant.                                       *)
LEMMA Inductive == IInv /\ [Next]_vars => IInv'
  <1> SUFFICES ASSUME IInv, [Next]_vars PROVE IInv'
    OBVIOUS
  <1>1. CASE Continuation
    BY <1>1, ContinuationKeeps
  <1>2. CASE Comment
    BY <1>2, CommentKeeps
  <1>3. CASE Quote
    BY <1>3, QuoteKeeps
  <1>4. CASE Bracket
    BY <1>4, BracketKeeps
  <1>5. CASE EndOfLine \/ Terminal
    BY <1>5, CharKeeps
  <1>6. CASE PairTerminal
    BY <1>6, PairKeeps
  <1>7. CASE Letter
    BY <1>7, LetterKeeps
  <1>8. CASE Blank
    BY <1>8, BlankKeeps
  <1>9. CASE EndOfFile
    BY <1>9, EndOfFileKeeps
  <1>10. CASE UNCHANGED vars
    <2>1. TypeOK'
      BY <1>10 DEF vars, IInv, CharactersOnce, TypeOK, Tokens
    <2>2. \A p : Taken(p)' <=> Taken(p)
      BY <1>10 DEF vars, Taken
    <2>3. \A m, n : SameLine(m, n)' <=> SameLine(m, n)
      BY <1>10 DEF vars, SameLine
    <2>4. NothingIsLost'
      BY <1>10, <2>2, <2>3 DEF vars, IInv, CharactersOnce, NothingIsLost, Dropped
    <2>5. InOrder' /\ Ordered(tokens', tokenBuffer', offset')
      BY <1>10 DEF vars, IInv, CharactersOnce, InOrder
    <2> QED
      BY <2>1, <2>4, <2>5 DEF IInv, CharactersOnce
  <1> QED
    BY <1>1, <1>2, <1>3, <1>4, <1>5, <1>6, <1>7, <1>8, <1>9, <1>10 DEF Next

(* Nothing has been read at the beginning.                                 *)
LEMMA Initial == Init => IInv
  <1> SUFFICES ASSUME Init PROVE IInv
    OBVIOUS
  <1>1. Len(code) \in Nat
    BY LexerAssumption DEF Init
  <1>2. TypeOK
    BY <1>1 DEF Init, TypeOK
  <1>3. NothingIsLost
    BY <1>1 DEF Init, NothingIsLost
  <1>4. InOrder /\ Ordered(tokens, tokenBuffer, offset)
    BY DEF Init, InOrder, Ordered, Increasing, Positions
  <1> QED
    BY <1>2, <1>3, <1>4 DEF IInv, CharactersOnce

(***************************************************************************)
(* Whatever the text and the configuration, the lexer reads every          *)
(* character once: into one token, in the order of the source, unless it   *)
(* is a blank, in a remark or broken off with a backslash.                 *)
(***************************************************************************)
THEOREM EveryCharacterOnce == Spec => []CharactersOnce
  <1>1. IInv => CharactersOnce
    BY DEF IInv
  <1> QED
    BY <1>1, Initial, Inductive, PTL DEF Spec

-----------------------------------------------------------------------------
(* Words stay whole.  The word of the buffer has no gap so far but where a  *)
(* backslash broke the line, nothing that could belong to it was read       *)
(* behind it, and the next character does not continue a word that is       *)
(* already a token.  Between a remark and the end of its line nothing is    *)
(* read, so a word that a remark follows cannot go on behind it.            *)

\* no word goes on at p that began before it
Starts(p) == At(p - 1) \in WordCharacters => At(p - 2) = "newline"

Continues(at) ==
  \A i \in 1 .. Len(at) - 1 : at[i + 1] = at[i] + 1 \/ At(at[i] + 1) = "backslash"

AtLineEnd == Here \in {"newline", "undefined"}

\* the word so far, of which the buffer holds the positions b
WordSoFar(b) ==
  /\ Continues(b)
  /\ \A i \in 1 .. Len(b) : Starts(b[i]) \/ (i > 1 /\ b[i - 1] = b[i] - 1)
  /\ b # <<>> => \/ LastOf(b) + 1 = offset
                 \/ At(LastOf(b) + 1) = "backslash"
                 \/ At(LastOf(b) + 1) = "comment" /\ AtLineEnd
  /\ Starts(offset) \/ (b # <<>> /\ LastOf(b) = offset - 1) \/ AtLineEnd

WholeWord(at) == Continues(at) /\ At(LastOf(at) + 1) \notin WordCharacters /\ Starts(at[1])
AllWhole(ts)  == \A k \in DOMAIN ts : IsWord(ts[k]) => WholeWord(ts[k].at)

WInv == AllWhole(tokens) /\ WordSoFar(tokenBuffer)

\* The types that the steps need.
LEMMA WordTypes ==
  ASSUME IInv
  PROVE  /\ code \in Seq(Characters) /\ Len(code) \in Nat /\ offset \in Nat \ {0}
         /\ tokenBuffer \in Seq(1 .. Len(code)) /\ tokens \in Seq(Tokens) /\ column \in Int
         /\ Len(tokenBuffer) \in Nat /\ \A i \in 1 .. Len(tokenBuffer) : tokenBuffer[i] \in 1 .. Len(code)
         /\ TypeOK
  BY LexerAssumption DEF IInv, CharactersOnce, TypeOK

\* The source does not change.
LEMMA SameCode ==
  ASSUME code' = code
  PROVE  /\ \A p : At(p)' = At(p)
         /\ \A p : Starts(p)' <=> Starts(p)
         /\ \A at : Continues(at)' <=> Continues(at)
         /\ \A at : WholeWord(at)' <=> WholeWord(at)
         /\ \A ts : AllWhole(ts)' <=> AllWhole(ts)
  <1>1. \A p : At(p)' = At(p)
    BY DEF At
  <1>2. \A p : Starts(p)' <=> Starts(p)
    BY <1>1 DEF Starts
  <1>3. \A at : Continues(at)' <=> Continues(at)
    BY <1>1 DEF Continues
  <1>4. \A at : WholeWord(at)' <=> WholeWord(at)
    BY <1>1, <1>2, <1>3 DEF WholeWord
  <1>5. \A ts : AllWhole(ts)' <=> AllWhole(ts)
    BY <1>4 DEF AllWhole
  <1> QED
    BY <1>1, <1>2, <1>3, <1>4, <1>5

\* A token that is whole, if it is a word, behind tokens that are.
LEMMA WholeAppend ==
  ASSUME NEW ts \in Seq(Tokens), NEW t \in Tokens, AllWhole(ts), IsWord(t) => WholeWord(t.at)
  PROVE  AllWhole(Append(ts, t))
  <1> DEFINE us == Append(ts, t)
  <1>1. /\ DOMAIN ts = 1 .. Len(ts) /\ DOMAIN us = 1 .. Len(ts) + 1 /\ Len(ts) \in Nat
        /\ \A i \in 1 .. Len(ts) : us[i] = ts[i]
        /\ us[Len(ts) + 1] = t
    BY AppendAt
  <1> HIDE DEF us
  <1>2. ASSUME NEW k \in DOMAIN us, IsWord(us[k]) PROVE WholeWord(us[k].at)
    <2>1. k \in 1 .. Len(ts) \/ k = Len(ts) + 1
      BY <1>1
    <2> QED
      BY <1>1, <1>2, <2>1 DEF AllWhole
  <1>3. AllWhole(us)
    BY <1>2 DEF AllWhole
  <1> QED
    BY <1>3 DEF us

\* What is behind the last character of the buffer cannot belong to the word.
LEMMA WordEnds ==
  ASSUME IInv, WInv, Here \notin WordCharacters, tokenBuffer # <<>>
  PROVE  At(LastOf(tokenBuffer) + 1) \notin WordCharacters
  <1>1. CASE LastOf(tokenBuffer) + 1 = offset
    BY <1>1 DEF Here
  <1>2. CASE At(LastOf(tokenBuffer) + 1) \in {"backslash", "comment"}
    BY <1>2 DEF WordCharacters
  <1> QED
    BY <1>1, <1>2 DEF WInv, WordSoFar

\* The buffer is a whole word when a character that is none follows it.
LEMMA BufferWhole ==
  ASSUME IInv, WInv, Here \notin WordCharacters, tokenBuffer # <<>>
  PROVE  WholeWord(tokenBuffer)
  <1>1. At(LastOf(tokenBuffer) + 1) \notin WordCharacters
    BY WordEnds
  <1>2. 1 \in 1 .. Len(tokenBuffer)
    BY WordTypes
  <1>3. Starts(tokenBuffer[1])
    BY <1>2 DEF WInv, WordSoFar
  <1> QED
    BY <1>1, <1>3 DEF WholeWord, WInv, WordSoFar

\* The word without the carriage returns at its ends is a piece of the word, and
\* ends where the word does or before a carriage return or a backslash.
LEMMA TrimParts ==
  ASSUME IInv, WInv, Trim(tokenBuffer) # <<>>
  PROVE  /\ Continues(Trim(tokenBuffer)) /\ Starts(Trim(tokenBuffer)[1])
         /\ \/ tokenBuffer # <<>> /\ LastOf(Trim(tokenBuffer)) = LastOf(tokenBuffer)
            \/ At(LastOf(Trim(tokenBuffer)) + 1) \in {"return", "backslash"}
  <1> DEFINE b    == tokenBuffer
             kept == {i \in DOMAIN b : code[b[i]] # "return"}
             m    == CHOOSE i \in kept : \A j \in kept : i <= j
             n    == CHOOSE i \in kept : \A j \in kept : j <= i
             s    == SubSeq(b, m, n)
  <1>1. /\ DOMAIN b = 1 .. Len(b) /\ Len(b) \in Nat /\ b \in Seq(1 .. Len(code))
        /\ Len(code) \in Nat
        /\ \A i \in 1 .. Len(b) : b[i] \in 1 .. Len(code)
    BY WordTypes
  <1>2. kept # {} /\ Trim(b) = s
    BY DEF Trim
  <1>3. kept \in SUBSET Nat /\ kept \in SUBSET (0 .. Len(b))
    BY <1>1
  <1>4. m \in kept /\ \A j \in kept : m <= j
    BY <1>2, <1>3, Least
  <1>5. n \in kept /\ \A j \in kept : j <= n
    BY <1>1, <1>2, <1>3, Greatest
  <1>6. \A i \in 1 .. Len(b) : i \in kept \/ code[b[i]] = "return"
    BY <1>1
  <1>7. m \in 1 .. Len(b) /\ n \in 1 .. Len(b) /\ m <= n
    BY <1>1, <1>4, <1>5
  <1> HIDE DEF m, n, kept
  <1>8. Len(s) = n - m + 1 /\ \A i \in 1 .. n - m + 1 : s[i] = b[m + i - 1]
    <2>1. m \in Int /\ n \in Int /\ \A i \in m .. n : b[i] \in 1 .. Len(code)
      BY <1>1, <1>7
    <2> QED
      BY <1>7, <2>1, SubSeqProperties
  <1> HIDE DEF s
  <1>9. Continues(s)
    <2> SUFFICES ASSUME NEW i \in 1 .. Len(s) - 1
                 PROVE  s[i + 1] = s[i] + 1 \/ At(s[i] + 1) = "backslash"
      BY DEF Continues
    <2>1. /\ i \in 1 .. n - m + 1 /\ i + 1 \in 1 .. n - m + 1
          /\ m + i - 1 \in 1 .. Len(b) - 1 /\ m + (i + 1) - 1 = (m + i - 1) + 1
      BY <1>1, <1>7, <1>8
    <2>2. s[i] = b[m + i - 1] /\ s[i + 1] = b[(m + i - 1) + 1]
      BY <1>8, <2>1
    <2>3. Continues(b)
      BY DEF WInv, WordSoFar
    <2> QED
      BY <2>1, <2>2, <2>3 DEF Continues
  <1>10. \/ b # <<>> /\ LastOf(s) = LastOf(b)
         \/ At(LastOf(s) + 1) \in {"return", "backslash"}
    <2>1. LastOf(s) = b[n]
      <3>1. n - m + 1 \in 1 .. n - m + 1 /\ m + (n - m + 1) - 1 = n
        BY <1>1, <1>7
      <3>2. s[n - m + 1] = b[m + (n - m + 1) - 1]
        BY <1>8, <3>1
      <3> QED
        BY <1>8, <3>1, <3>2 DEF LastOf
    <2>2. CASE n = Len(b)
      <3>1. b # <<>> /\ LastOf(b) = b[n]
        BY <1>1, <1>7, <2>2 DEF LastOf
      <3> QED
        BY <2>1, <3>1
    <2>3. CASE n # Len(b)
      <3>1. n \in 1 .. Len(b) - 1 /\ n + 1 \in 1 .. Len(b) /\ ~(n + 1 <= n)
        <4>1. Len(b) \in Nat /\ n \in 1 .. Len(b)
          BY <1>1, <1>7
        <4> QED
          BY <2>3, <4>1
      <3>2. code[b[n + 1]] = "return"
        BY <1>5, <1>6, <3>1
      <3>3. b[n + 1] = b[n] + 1 \/ At(b[n] + 1) = "backslash"
        BY <3>1 DEF WInv, WordSoFar, Continues
      <3>4. At(b[n + 1]) = "return"
        BY <1>1, <3>1, <3>2 DEF At
      <3> QED
        BY <2>1, <3>3, <3>4
    <2> QED
      BY <2>2, <2>3
  <1>11. Starts(s[1])
    <2>1. s[1] = b[m]
      <3>1. 1 \in 1 .. n - m + 1 /\ m + 1 - 1 = m
        BY <1>1, <1>7
      <3> QED
        BY <1>8, <3>1
    <2>2. Starts(b[m]) \/ (m > 1 /\ b[m - 1] = b[m] - 1)
      BY <1>7 DEF WInv, WordSoFar
    <2>3. ASSUME m > 1, b[m - 1] = b[m] - 1 PROVE Starts(b[m])
      <3>1. m - 1 \in 1 .. Len(b) /\ ~(m <= m - 1)
        BY <1>1, <1>7, <2>3
      <3>2. code[b[m - 1]] = "return"
        BY <1>4, <1>6, <3>1
      <3>3. At(b[m] - 1) = "return"
        BY <1>1, <2>3, <3>1, <3>2 DEF At
      <3> QED
        BY <3>3 DEF Starts, WordCharacters
    <2> QED
      BY <2>1, <2>2, <2>3
  <1> QED
    BY <1>2, <1>9, <1>10, <1>11

\* So it is a whole word as well.
LEMMA TrimWhole ==
  ASSUME IInv, WInv, Here \notin WordCharacters, Trim(tokenBuffer) # <<>>
  PROVE  WholeWord(Trim(tokenBuffer))
  <1>1. CASE At(LastOf(Trim(tokenBuffer)) + 1) \in {"return", "backslash"}
    BY <1>1, TrimParts DEF WholeWord, WordCharacters
  <1>2. CASE tokenBuffer # <<>> /\ LastOf(Trim(tokenBuffer)) = LastOf(tokenBuffer)
    BY <1>2, TrimParts, WordEnds DEF WholeWord
  <1> QED
    BY <1>1, <1>2, TrimParts

\* The three ways in which the actions flush make whole words.
LEMMA FlushesWhole ==
  ASSUME IInv, WInv, Here \notin WordCharacters
  PROVE  /\ AllWhole(WithWord(tokenBuffer))
         /\ AllWhole(WithWord(Trim(tokenBuffer)))
         /\ AllWhole(WithPrefix)
  <1>1. /\ tokens \in Seq(Tokens) /\ AllWhole(tokens) /\ TypeOK /\ column \in Int
        /\ tokenBuffer \in Seq(1 .. Len(code)) /\ Increasing(tokenBuffer)
    BY WordTypes DEF WInv, IInv, Ordered
  <1>2. ASSUME NEW b \in Seq(1 .. Len(code)), b # <<>> => WholeWord(b) PROVE AllWhole(WithWord(b))
    <2>1. ParseToken(b) \in Tokens /\ ParseToken(b).at = b
      BY <1>1, WordType
    <2>2. CASE b # <<>>
      <3>1. AllWhole(Append(tokens, ParseToken(b)))
        BY <1>1, <1>2, <2>1, <2>2, WholeAppend
      <3> QED
        BY <2>2, <3>1 DEF WithWord
    <2> QED
      BY <1>1, <2>2 DEF WithWord
  <1>3. tokenBuffer # <<>> => WholeWord(tokenBuffer)
    BY BufferWhole
  <1>4. AllWhole(WithWord(tokenBuffer))
    BY <1>1, <1>2, <1>3
  <1>5. AllWhole(WithWord(Trim(tokenBuffer)))
    <2>1. Trim(tokenBuffer) \in Seq(1 .. Len(code))
      BY <1>1, TrimFacts
    <2> QED
      BY <1>2, <2>1, TrimWhole
  <1>6. AllWhole(WithPrefix)
    <2> DEFINE t == Token("KEYWORD", "BRACKET_PREFIX", tokenBuffer, column)
    <2>1. t \in Tokens /\ t.at = tokenBuffer
      <3>1. "BRACKET_PREFIX" \in Kinds
        BY DEF Kinds
      <3> QED
        BY <1>1, <3>1, TokenType
    <2> HIDE DEF t
    <2>2. tokenBuffer # <<>> => AllWhole(Append(tokens, t))
      BY <1>1, <1>3, <2>1, WholeAppend
    <2> QED
      BY <1>4, <2>2 DEF WithPrefix, t
  <1> QED
    BY <1>4, <1>5, <1>6

\* The word is gone and the next character starts one, if it belongs to any.
LEMMA EmptyWord ==
  ASSUME code' = code, tokenBuffer' = <<>>, AllWhole(tokens'), (Starts(offset) \/ AtLineEnd)'
  PROVE  WInv'
  <1>1. AllWhole(tokens)'
    BY SameCode DEF AllWhole, WholeWord, Starts, Continues, At
  <1>2. Continues(<<>>)'
    BY DEF Continues
  <1> QED
    BY <1>1, <1>2 DEF WInv, WordSoFar

\* A token that is no word, up to a character of none.
LEMMA ReadWhole ==
  ASSUME IInv, NEW ts \in Seq(Tokens), AllWhole(ts), NEW n \in Int, Advance(n),
         NEW type \in {"QUOTE", "BRACKET", "terminal", "EOL"}, NEW kind \in Kinds,
         NEW at \in Seq(1 .. Len(code)), At(n) \notin WordCharacters,
         tokens' = Append(ts, Token(type, kind, at, column)), tokenBuffer' = <<>>
  PROVE  WInv'
  <1> DEFINE t == Token(type, kind, at, column)
  <1>1. t \in Tokens /\ t.at = at
    BY WordTypes, TokenType
  <1>2. ~IsWord(t)
    BY DEF Token, IsWord
  <1> HIDE DEF t
  <1>3. AllWhole(Append(ts, t))
    BY <1>1, <1>2, WholeAppend
  <1>4. AllWhole(tokens')
    BY <1>3 DEF t
  <1>5. code' = code /\ offset' = n + 1
    BY DEF Advance
  <1>6. Starts(offset)'
    <2>1. At(offset - 1)' = At(n)
      <3>1. offset' - 1 = n
        BY <1>5
      <3> QED
        BY <1>5, <3>1 DEF At
    <2> QED
      BY <2>1 DEF Starts
  <1> QED
    BY <1>4, <1>5, <1>6, EmptyWord

\* An error changes the result only, and so does a step that changes nothing.
LEMMA SameWhole ==
  ASSUME WInv, UNCHANGED <<code, offset, tokens, tokenBuffer>>
  PROVE  WInv'
  <1>1. \A p : At(p)' = At(p)
    BY SameCode
  <1>2. AllWhole(tokens)'
    BY <1>1 DEF WInv, AllWhole, WholeWord, Starts, Continues
  <1>3. AtLineEnd' <=> AtLineEnd
    BY <1>1 DEF AtLineEnd, Here
  <1>4. WordSoFar(tokenBuffer)'
    BY <1>1, <1>3 DEF WInv, WordSoFar, Starts, Continues
  <1> QED
    BY <1>2, <1>4 DEF WInv

\* A content that is read to its end, or not.
LEMMA FetchWhole ==
  ASSUME IInv, WInv, Reading, NEW type \in {"QUOTE", "BRACKET"}, NEW ts \in Seq(Tokens), AllWhole(ts),
         NEW ends \in SUBSET (offset + 1 .. Len(code)), Fetch(type, ts, ends),
         \A p \in ends : code[p] \notin WordCharacters
  PROVE  WInv'
  <1>1. CASE Throw("UNTERMINATED_STRING")
    BY <1>1, SameWhole DEF Throw
  <1>2. ASSUME NEW p \in ends, tokens' = Append(ts, Token(type, Here, Stretch(p), column)),
               tokenBuffer' = <<>>, Advance(p)
        PROVE  WInv'
    <2>1. p \in 1 .. Len(code) /\ offset <= p /\ p \in Int
      BY HereFacts
    <2>2. Stretch(p) \in Seq(1 .. Len(code))
      BY <2>1, StretchFacts
    <2>3. Here \in Kinds
      BY HereFacts DEF Kinds
    <2>4. At(p) \notin WordCharacters
      BY <2>1 DEF At
    <2> QED
      BY <1>2, <2>1, <2>2, <2>3, <2>4, ReadWhole
  <1> QED
    BY <1>1, <1>2 DEF Fetch

\* A quote ends at its own character.
LEMMA QuoteWhole == ASSUME IInv, WInv, Quote PROVE WInv'
  <1>1. CASE Throw("UNKNOWN_TOKEN")
    BY <1>1, SameWhole DEF Throw
  <1>2. CASE Fetch("QUOTE", tokens, QuoteEnd)
    <2>1. QuoteEnd \in SUBSET (offset + 1 .. Len(code))
      BY DEF QuoteEnd
    <2>2. \A p \in QuoteEnd : code[p] \notin WordCharacters
      BY DEF QuoteEnd, Quote, Quotes, WordCharacters
    <2> QED
      BY <1>2, <2>1, <2>2, FetchWhole, WordTypes DEF Quote, WInv
  <1> QED
    BY <1>1, <1>2 DEF Quote

\* A content ends at a bracket: the nesting only changes there.
LEMMA BracketEnds ==
  ASSUME IInv, Reading, Here \in Brackets, NEW p \in BracketEnd
  PROVE  p \in offset + 1 .. Len(code) /\ code[p] \notin WordCharacters
  <1>1. /\ p \in offset + 1 .. Len(code) /\ Nesting(p) = 0
        /\ \A q \in offset + 1 .. p - 1 : Nesting(q) > 0
    BY DEF BracketEnd
  <1>2. offset \in Nat /\ p \in Nat
    BY <1>1, WordTypes
  <1>3. FlipBracket(Here) \in Brackets
    BY DEF FlipBracket, Brackets
  <1>4. ASSUME code[p] \in WordCharacters PROVE FALSE
    <2>1. ASSUME NEW c \in Brackets
          PROVE  {q \in offset + 1 .. p : code[q] = c} = {q \in offset + 1 .. p - 1 : code[q] = c}
      <3>1. code[p] # c
        BY <1>4 DEF Brackets, WordCharacters
      <3> QED
        BY <1>1, <1>2, <3>1
    <2>2. Nesting(p) = Nesting(p - 1)
      BY <1>3, <2>1 DEF Nesting, CountOf
    <2>3. CASE p = offset + 1
      <3>1. offset + 1 .. p - 1 = {}
        BY <1>2, <2>3
      <3>2. \A c : {q \in offset + 1 .. p - 1 : code[q] = c} = {}
        BY <3>1
      <3>3. \A c : CountOf(c, p - 1) = 0
        BY <3>2, FS_EmptySet DEF CountOf
      <3>4. Nesting(p - 1) = 1
        BY <3>3 DEF Nesting
      <3> QED
        BY <1>1, <2>2, <3>4
    <2>4. CASE p # offset + 1
      <3>1. p - 1 \in offset + 1 .. p - 1
        BY <1>1, <1>2, <2>4
      <3>2. Nesting(p - 1) > 0
        BY <1>1, <3>1
      <3> QED
        BY <1>1, <2>2, <3>2
    <2> QED
      BY <2>3, <2>4
  <1> QED
    BY <1>1, <1>4

\* A bracket, or its content, behind the prefix.
LEMMA BracketWhole == ASSUME IInv, WInv, Bracket PROVE WInv'
  <1>1. Reading /\ Here \in Brackets /\ Here \notin WordCharacters
    BY DEF Bracket, Brackets, WordCharacters
  <1>2. AllWhole(WithPrefix) /\ WithPrefix \in Seq(Tokens)
    BY <1>1, FlushesWhole, Flushes DEF Flushed
  <1>3. CASE Throw("UNKNOWN_TOKEN")
    BY <1>3, SameWhole DEF Throw
  <1>4. CASE Fetch("BRACKET", WithPrefix, BracketEnd)
    <2>1. BracketEnd \in SUBSET (offset + 1 .. Len(code))
      BY DEF BracketEnd
    <2>2. \A p \in BracketEnd : code[p] \notin WordCharacters
      BY <1>1, BracketEnds
    <2> QED
      BY <1>1, <1>2, <1>4, <2>1, <2>2, FetchWhole
  <1>5. CASE /\ tokens' = Append(WithPrefix, Token("BRACKET", Here, <<offset>>, column))
             /\ tokenBuffer' = <<>>
             /\ Advance(offset)
    <2>1. Here \in Kinds /\ <<offset>> \in Seq(1 .. Len(code)) /\ offset \in Int
      BY <1>1, HereFacts DEF Kinds
    <2>2. At(offset) \notin WordCharacters
      BY <1>1 DEF Here
    <2> QED
      BY <1>2, <1>5, <2>1, <2>2, ReadWhole
  <1> QED
    BY <1>3, <1>4, <1>5 DEF Bracket

\* Terminals and line ends.
LEMMA CharWhole ==
  ASSUME IInv, WInv, EndOfLine \/ PairTerminal \/ Terminal
  PROVE  WInv'
  <1>1. /\ Reading /\ Here \notin WordCharacters
        /\ PairTerminal => At(offset + 1) \notin WordCharacters /\ At(offset + 1) # "undefined"
    BY DEF EndOfLine, PairTerminal, Terminal, Terminals, IsPair, Ahead, Pairs, WordCharacters
  <1>2. AllWhole(WithWord(Trim(tokenBuffer))) /\ WithWord(Trim(tokenBuffer)) \in Seq(Tokens)
    BY <1>1, FlushesWhole, Flushes DEF Flushed
  <1>3. "none" \in Kinds /\ offset \in Int /\ offset + 1 \in Int /\ offset \in 1 .. Len(code)
    BY <1>1, HereFacts DEF Kinds
  <1>4. CASE EndOfLine \/ Terminal
    <2>1. <<offset>> \in Seq(1 .. Len(code)) /\ At(offset) \notin WordCharacters
      BY <1>1, <1>3 DEF Here
    <2> QED
      BY <1>2, <1>3, <1>4, <2>1, ReadWhole DEF EndOfLine, Terminal, AppendCharToken
  <1>5. CASE PairTerminal
    <2>1. offset + 1 \in 1 .. Len(code)
      BY <1>1, <1>3, <1>5 DEF At
    <2>2. <<offset, offset + 1>> \in Seq(1 .. Len(code))
      BY <1>3, <2>1
    <2> QED
      BY <1>1, <1>2, <1>3, <1>5, <2>2, ReadWhole DEF PairTerminal, AppendCharToken
  <1> QED
    BY <1>4, <1>5

\* A blank ends the word.
LEMMA BlankWhole == ASSUME IInv, WInv, Blank PROVE WInv'
  <1>1. Here = "blank" /\ Here \notin WordCharacters /\ code' = code /\ offset' = offset + 1
    BY DEF Blank, WordCharacters, Advance
  <1>2. AllWhole(tokens') /\ tokenBuffer' = <<>>
    BY <1>1, FlushesWhole DEF Blank
  <1>3. Starts(offset)'
    <2>1. At(offset - 1)' = Here
      <3>1. offset' - 1 = offset
        BY <1>1, WordTypes
      <3> QED
        BY <1>1, <3>1 DEF At, Here
    <2> QED
      BY <1>1, <2>1 DEF Starts
  <1> QED
    BY <1>1, <1>2, <1>3, EmptyWord

\* The end of the source ends the word.
LEMMA EndOfFileWhole == ASSUME IInv, WInv, EndOfFile PROVE WInv'
  <1>1. Here = "undefined" /\ Here \notin WordCharacters /\ code' = code /\ offset' = offset
    BY WordTypes DEF EndOfFile, WordCharacters, Here, At
  <1>2. AllWhole(WithWord(tokenBuffer)) /\ WithWord(tokenBuffer) \in Seq(Tokens)
    BY <1>1, FlushesWhole, Flushes DEF Flushed
  <1> DEFINE t == Token("EOF", "none", <<>>, column)
  <1>3. t \in Tokens
    <2>1. "none" \in Kinds /\ <<>> \in Seq(1 .. Len(code))
      BY DEF Kinds
    <2> QED
      BY <2>1, WordTypes, TokenType
  <1>4. ~IsWord(t)
    BY DEF Token, IsWord
  <1>5. tokens' = Append(WithWord(tokenBuffer), t) /\ tokenBuffer' = <<>>
    BY DEF EndOfFile
  <1> HIDE DEF t
  <1>6. AllWhole(tokens')
    BY <1>2, <1>3, <1>4, <1>5, WholeAppend
  <1>7. AtLineEnd'
    BY <1>1 DEF AtLineEnd, Here, At
  <1> QED
    BY <1>1, <1>5, <1>6, <1>7, EmptyWord

\* A remark is left at the end of its line, a broken line behind it.
LEMMA DropWhole ==
  ASSUME IInv, WInv, Comment \/ Continuation
  PROVE  WInv'
  <1>1. /\ code \in Seq(Characters) /\ Len(code) \in Nat /\ offset \in 1 .. Len(code)
        /\ Here = code[offset] /\ Here \in {"comment", "backslash"}
    BY HereFacts DEF Comment, Continuation
  <1>2. /\ code' = code /\ tokens' = tokens /\ tokenBuffer' = tokenBuffer
        /\ \A p : At(p)' = At(p)
        /\ \A p : Starts(p)' <=> Starts(p)
        /\ AllWhole(tokens)'
        /\ Continues(tokenBuffer)'
    <2>1. code' = code /\ tokens' = tokens /\ tokenBuffer' = tokenBuffer
      BY DEF Comment, Continuation, Advance
    <2>2. \A p : At(p)' = At(p)
      BY <2>1, SameCode
    <2>3. \A p : Starts(p)' <=> Starts(p)
      BY <2>1, SameCode
    <2>4. AllWhole(tokens)' /\ Continues(tokenBuffer)'
      BY <2>1, <2>2 DEF WInv, WordSoFar, AllWhole, WholeWord, Starts, Continues
    <2> QED
      BY <2>1, <2>2, <2>3, <2>4
  <1>3. \/ AtLineEnd'
        \/ Here = "backslash" /\ Starts(offset)'
    <2>1. CASE Advance(Len(code) + 1)
      <3>1. offset' = Len(code) + 2
        BY <1>1, <2>1 DEF Advance
      <3> QED
        BY <1>1, <1>2, <3>1 DEF AtLineEnd, Here, At
    <2>2. ASSUME NEW n \in LineEnd, Comment, Advance(n - 1) PROVE AtLineEnd'
      <3>1. n \in 1 .. Len(code) /\ code[n] = "newline"
        BY <1>1, LineEndFacts
      <3>2. offset' = n
        BY <1>1, <2>2, <3>1 DEF Advance
      <3> QED
        BY <1>2, <3>1, <3>2 DEF AtLineEnd, Here, At
    <2>3. ASSUME NEW n \in LineEnd, Continuation, Advance(n + 1)
          PROVE  Here = "backslash" /\ Starts(offset)'
      <3>1. n \in 1 .. Len(code) /\ code[n] = "newline"
        BY <1>1, LineEndFacts
      <3>2. offset' - 2 = n
        BY <1>1, <2>3, <3>1 DEF Advance
      <3>3. At(n) = "newline"
        BY <3>1 DEF At
      <3>4. At(offset - 2)' = "newline"
        BY <1>2, <3>2, <3>3
      <3> QED
        BY <2>3, <3>4 DEF Starts, Continuation
    <2>4. CASE Comment
      BY <2>1, <2>2, <2>4 DEF Comment
    <2>5. CASE Continuation
      BY <2>1, <2>3, <2>5 DEF Continuation
    <2> QED
      BY <2>4, <2>5
  <1>4. ASSUME tokenBuffer # <<>>
        PROVE  \/ At(LastOf(tokenBuffer) + 1) = "backslash"
               \/ At(LastOf(tokenBuffer) + 1) = "comment" /\ Here = "comment"
    <2>1. Here = At(offset) /\ ~AtLineEnd
      BY <1>1 DEF Here, AtLineEnd
    <2> QED
      BY <1>1, <1>4, <2>1 DEF WInv, WordSoFar
  <1>5. ASSUME tokenBuffer # <<>>
        PROVE  \/ At(LastOf(tokenBuffer) + 1)' = "backslash"
               \/ At(LastOf(tokenBuffer) + 1)' = "comment" /\ AtLineEnd'
    <2>1. At(LastOf(tokenBuffer) + 1)' = At(LastOf(tokenBuffer) + 1)
      BY <1>2 DEF LastOf, At
    <2> QED
      BY <1>3, <1>4, <1>5, <2>1
  <1>6. \A i \in 1 .. Len(tokenBuffer) :
          Starts(tokenBuffer[i])' \/ (i > 1 /\ tokenBuffer[i - 1] = tokenBuffer[i] - 1)
    BY <1>2 DEF WInv, WordSoFar, Starts
  <1>7. WordSoFar(tokenBuffer)'
    BY <1>2, <1>3, <1>5, <1>6 DEF WordSoFar
  <1> QED
    BY <1>2, <1>7 DEF WInv

\* A letter continues the word of the buffer, or starts one.
LEMMA LetterWhole == ASSUME IInv, WInv, Letter PROVE WInv'
  <1> DEFINE b == tokenBuffer
             c == Append(b, offset)
             L == Len(b)
  <1>1. /\ code \in Seq(Characters) /\ Len(code) \in Nat /\ offset \in 1 .. Len(code)
        /\ Here = code[offset] /\ ~AtLineEnd /\ Here \notin {"backslash", "comment"}
    <2>1. Reading /\ Here \notin {"backslash", "comment", "newline"}
      BY DEF Letter, IsLetter, IsSign
    <2>2. /\ code \in Seq(Characters) /\ Len(code) \in Nat /\ offset \in 1 .. Len(code)
          /\ Here = code[offset] /\ Here \in Characters
      BY <2>1, HereFacts
    <2> QED
      BY <2>1, <2>2 DEF AtLineEnd, Characters
  <1>2. b \in Seq(1 .. Len(code)) /\ L \in Nat /\ \A i \in 1 .. L : b[i] \in 1 .. Len(code)
    BY WordTypes
  <1>3. /\ tokenBuffer' = c /\ tokens' = tokens /\ code' = code /\ offset' = offset + 1
        /\ \A p : At(p)' = At(p)
        /\ \A p : Starts(p)' <=> Starts(p)
    <2>1. tokenBuffer' = c /\ tokens' = tokens /\ code' = code /\ offset' = offset + 1
      BY DEF Letter, Advance
    <2> QED
      BY <2>1, SameCode
  <1>4. AllWhole(tokens)'
    BY <1>3 DEF WInv, AllWhole, WholeWord, Starts, Continues
  <1>5. /\ Len(c) = L + 1 /\ c # <<>> /\ c[L + 1] = offset
        /\ \A i \in 1 .. L : c[i] = b[i]
    BY <1>1, <1>2, AppendProperties
  <1>6. L > 0 => b # <<>> /\ LastOf(b) = b[L] /\ L \in 1 .. L
    BY <1>2 DEF LastOf
  <1>7. L = 0 => b = <<>>
    BY <1>2
  <1>8. L > 0 => b[L] + 1 = offset \/ At(b[L] + 1) = "backslash"
    BY <1>1, <1>6 DEF WInv, WordSoFar
  <1>9. Starts(offset) \/ (L > 0 /\ b[L] = offset - 1)
    <2>1. CASE L = 0
      BY <1>1, <1>7, <2>1 DEF WInv, WordSoFar
    <2>2. CASE L > 0
      BY <1>1, <1>6, <2>2 DEF WInv, WordSoFar
    <2> QED
      BY <1>2, <2>1, <2>2
  <1>10. Continues(b) /\ \A i \in 1 .. L : Starts(b[i]) \/ (i > 1 /\ b[i - 1] = b[i] - 1)
    BY DEF WInv, WordSoFar
  <1> HIDE DEF b, c, L
  <1>11. ASSUME NEW i \in 1 .. Len(c) - 1
         PROVE  c[i + 1] = c[i] + 1 \/ At(c[i] + 1) = "backslash"
    <2>1. i \in 1 .. L /\ c[i] = b[i]
      BY <1>2, <1>5
    <2>2. CASE i = L
      <3>1. c[i + 1] = offset /\ c[i] = b[L] /\ L > 0
        BY <1>2, <1>5, <2>1, <2>2
      <3> QED
        BY <1>8, <3>1
    <2>3. CASE i # L
      <3>1. i \in 1 .. Len(b) - 1 /\ i + 1 \in 1 .. L
        BY <1>2, <2>1, <2>3 DEF L
      <3>2. c[i + 1] = b[i + 1]
        BY <1>5, <3>1
      <3>3. b[i + 1] = b[i] + 1 \/ At(b[i] + 1) = "backslash"
        BY <1>10, <3>1 DEF Continues
      <3> QED
        BY <2>1, <3>2, <3>3
    <2> QED
      BY <2>2, <2>3
  <1>12. ASSUME NEW i \in 1 .. Len(c)
         PROVE  Starts(c[i]) \/ (i > 1 /\ c[i - 1] = c[i] - 1)
    <2>1. CASE i \in 1 .. L
      <3>1. c[i] = b[i] /\ (i > 1 => i - 1 \in 1 .. L)
        BY <1>2, <1>5, <2>1
      <3> QED
        BY <1>5, <1>10, <2>1, <3>1
    <2>2. CASE i = L + 1
      <3>1. c[i] = offset /\ i - 1 = L /\ (L > 0 => i > 1 /\ L \in 1 .. L)
        BY <1>2, <1>5, <2>2
      <3> QED
        BY <1>5, <1>9, <3>1
    <2> QED
      BY <1>2, <1>5, <2>1, <2>2
  <1>13. LastOf(c) = offset
    BY <1>5 DEF LastOf
  <1>14. Continues(tokenBuffer)'
    BY <1>3, <1>11 DEF Continues
  <1>15. \A i \in 1 .. Len(tokenBuffer') :
           Starts(tokenBuffer[i])' \/ (i > 1 /\ tokenBuffer'[i - 1] = tokenBuffer'[i] - 1)
    BY <1>3, <1>12 DEF Starts
  <1>16. /\ tokenBuffer' # <<>> /\ LastOf(tokenBuffer)' + 1 = offset'
         /\ LastOf(tokenBuffer)' = offset' - 1
    <2>1. LastOf(tokenBuffer)' = offset
      BY <1>3, <1>13 DEF LastOf
    <2> QED
      BY <1>1, <1>3, <1>5, <2>1
  <1>17. WordSoFar(tokenBuffer)'
    BY <1>14, <1>15, <1>16 DEF WordSoFar
  <1> QED
    BY <1>4, <1>17 DEF WInv

\* Every action keeps the words whole.
LEMMA WholeInductive == IInv /\ WInv /\ [Next]_vars => WInv'
  <1> SUFFICES ASSUME IInv, WInv, [Next]_vars PROVE WInv'
    OBVIOUS
  <1>1. CASE Continuation \/ Comment
    BY <1>1, DropWhole
  <1>2. CASE Quote
    BY <1>2, QuoteWhole
  <1>3. CASE Bracket
    BY <1>3, BracketWhole
  <1>4. CASE EndOfLine \/ PairTerminal \/ Terminal
    BY <1>4, CharWhole
  <1>5. CASE Letter
    BY <1>5, LetterWhole
  <1>6. CASE Blank
    BY <1>6, BlankWhole
  <1>7. CASE EndOfFile
    BY <1>7, EndOfFileWhole
  <1>8. CASE UNCHANGED vars
    BY <1>8, SameWhole DEF vars
  <1> QED
    BY <1>1, <1>2, <1>3, <1>4, <1>5, <1>6, <1>7, <1>8 DEF Next

\* No word is there at the beginning.
LEMMA WholeInitial == Init => WInv
  <1> SUFFICES ASSUME Init PROVE WInv
    OBVIOUS
  <1>1. tokens = <<>> /\ tokenBuffer = <<>> /\ offset = 1
    BY DEF Init
  <1>2. Starts(offset)
    BY <1>1 DEF Starts, At, WordCharacters
  <1> QED
    BY <1>1, <1>2 DEF WInv, AllWhole, WordSoFar, Continues

(***************************************************************************)
(* Whatever the text and the configuration, no word that the lexer yields  *)
(* is split or glued to another one: the buffer has no gap but where a     *)
(* backslash broke the line, and no letter next to it belongs to it but    *)
(* the one that a broken line loses (tokenBuffer, Lexer.parseCharacter).   *)
(***************************************************************************)
THEOREM WordsAreWhole == Spec => []WordsStayWhole
  <1>1. WInv => WordsStayWhole
    BY DEF WInv, AllWhole, WholeWord, Continues, Starts, WordsStayWhole
  <1> QED
    BY <1>1, Initial, Inductive, WholeInitial, WholeInductive, PTL DEF Spec
-----------------------------------------------------------------------------
(* Tokens tell where they are.  The row counts the newlines that ended a    *)
(* line and the column runs along with the offset, so both are right for    *)
(* every character that is being read, of the word or the next one, unless  *)
(* a newline before it was read as part of something else.                  *)

Newlines(q) == {n \in 1 .. q - 1 : At(n) = "newline"}

\* the line of q starts behind p
LineStart(q, p) == p \in {0} \cup Newlines(q) /\ \A n \in Newlines(q) : n <= p

Pointed(q) ==
  Newlines(q) \subseteq Lines =>
    /\ row = Cardinality(Newlines(q))
    /\ \E p : LineStart(q, p) /\ column = offset - p - 1

\* a word whose column may be wrong
Crooked(t) ==
  /\ IsWord(t)
  /\ \/ At(LastOf(t.at) + 1) \in {"comment", "backslash", "return", "open"}
     \/ \E p \in t.at[1] .. LastOf(t.at) : code[p] = "backslash"

Tells(t, lines) ==
  t.at # <<>> /\ Newlines(t.at[1]) \subseteq lines =>
    /\ t.row = Cardinality(Newlines(t.at[1]))
    /\ Crooked(t) \/ \E p : LineStart(t.at[1], p) /\ t.column = t.at[1] - p - 1

AllTell(ts, lines) == \A k \in DOMAIN ts : Tells(ts[k], lines)

LInv ==
  /\ AllTell(tokens, Lines)
  /\ Pointed(offset) /\ \A q \in Positions(tokenBuffer) : Pointed(q)

\* ts has a token for the end of the line at n
EolAt(ts, n) == \E i \in DOMAIN ts : ts[i].type = "EOL" /\ ts[i].at = <<n>>

\* Between two characters without a newline nothing is added to the newlines.
LEMMA NewlinesSame ==
  ASSUME NEW q \in Nat \ {0}, NEW r \in Nat, q <= r, \A n \in q .. r - 1 : At(n) # "newline"
  PROVE  Newlines(r) = Newlines(q)
  <1>1. ASSUME NEW n \in Newlines(r) PROVE n \in Newlines(q)
    <2>1. n \in 1 .. r - 1 /\ At(n) = "newline"
      BY DEF Newlines
    <2>2. n \notin q .. r - 1
      BY <2>1
    <2>3. n \in 1 .. q - 1
      BY <2>1, <2>2
    <2> QED
      BY <2>1, <2>3 DEF Newlines
  <1>2. ASSUME NEW n \in Newlines(q) PROVE n \in Newlines(r)
    <2>1. n \in 1 .. q - 1 /\ At(n) = "newline"
      BY DEF Newlines
    <2>2. n \in 1 .. r - 1
      BY <2>1
    <2> QED
      BY <2>1, <2>2 DEF Newlines
  <1> QED
    BY <1>1, <1>2

\* There are finitely many.
LEMMA NewlinesFinite ==
  ASSUME NEW q \in Nat
  PROVE  IsFiniteSet(Newlines(q)) /\ q \notin Newlines(q) /\ \A n \in Newlines(q) : n \in Nat /\ n < q
  <1>1. IsFiniteSet(1 .. q - 1)
    <2>1. 1 \in Int /\ q - 1 \in Int
      OBVIOUS
    <2> QED
      BY <2>1, FS_Interval
  <1>2. Newlines(q) \subseteq 1 .. q - 1
    BY DEF Newlines
  <1>3. IsFiniteSet(Newlines(q))
    BY <1>1, <1>2, FS_Subset
  <1> QED
    BY <1>2, <1>3

\* The source and so the newlines do not change.
LEMMA SameNewlines ==
  ASSUME code' = code
  PROVE  /\ \A q : Newlines(q)' = Newlines(q)
         /\ \A q, p : LineStart(q, p)' <=> LineStart(q, p)
  <1>1. \A p : At(p)' = At(p)
    BY SameCode
  <1>2. \A q : Newlines(q)' = Newlines(q)
    BY <1>1 DEF Newlines
  <1>3. \A q, p : LineStart(q, p)' <=> LineStart(q, p)
    BY <1>2 DEF LineStart
  <1> QED
    BY <1>2, <1>3

\* Only a token for the end of a line adds a line.
LEMMA EolAppend ==
  ASSUME NEW ts \in Seq(Tokens), NEW t \in Tokens, NEW n
  PROVE  EolAt(Append(ts, t), n) <=> EolAt(ts, n) \/ (t.type = "EOL" /\ t.at = <<n>>)
  <1> DEFINE us == Append(ts, t)
  <1>1. /\ DOMAIN ts = 1 .. Len(ts) /\ DOMAIN us = 1 .. Len(ts) + 1 /\ Len(ts) \in Nat
        /\ \A i \in 1 .. Len(ts) : us[i] = ts[i]
        /\ us[Len(ts) + 1] = t
    BY AppendAt
  <1> HIDE DEF us
  <1>2. ASSUME EolAt(us, n) PROVE EolAt(ts, n) \/ (t.type = "EOL" /\ t.at = <<n>>)
    <2>1. PICK i \in 1 .. Len(ts) + 1 : us[i].type = "EOL" /\ us[i].at = <<n>>
      BY <1>1, <1>2 DEF EolAt
    <2>2. i \in 1 .. Len(ts) \/ i = Len(ts) + 1
      BY <1>1
    <2> QED
      BY <1>1, <2>1, <2>2 DEF EolAt
  <1>3. ASSUME EolAt(ts, n) PROVE EolAt(us, n)
    <2>1. PICK i \in 1 .. Len(ts) : ts[i].type = "EOL" /\ ts[i].at = <<n>>
      BY <1>1, <1>3 DEF EolAt
    <2>2. i \in DOMAIN us /\ us[i] = ts[i]
      BY <1>1
    <2> QED
      BY <2>1, <2>2 DEF EolAt
  <1>4. ASSUME t.type = "EOL", t.at = <<n>> PROVE EolAt(us, n)
    <2>1. Len(ts) + 1 \in DOMAIN us
      BY <1>1
    <2> QED
      BY <1>1, <1>4, <2>1 DEF EolAt
  <1>5. EolAt(us, n) <=> EolAt(ts, n) \/ (t.type = "EOL" /\ t.at = <<n>>)
    BY <1>2, <1>3, <1>4
  <1> QED
    BY <1>5 DEF us

\* The lines have been read.
LEMMA LinesRead ==
  ASSUME IInv
  PROVE  /\ \A n : n \in Lines <=> n \in 1 .. Len(code) /\ code[n] = "newline" /\ EolAt(tokens, n)
         /\ \A n \in Lines : n < offset
  <1>1. \A n : n \in Lines <=> n \in 1 .. Len(code) /\ code[n] = "newline" /\ EolAt(tokens, n)
    BY DEF Lines, EolAt
  <1>2. ASSUME NEW n \in Lines PROVE n < offset
    <2>1. PICK i \in DOMAIN tokens : tokens[i].at = <<n>>
      BY DEF Lines
    <2>2. n \in Positions(tokens[i].at)
      <3>1. 1 \in DOMAIN <<n>> /\ <<n>>[1] = n
        OBVIOUS
      <3> QED
        BY <2>1, <3>1 DEF Positions
    <2> QED
      BY <2>2 DEF IInv, Ordered
  <1> QED
    BY <1>1, <1>2

\* A token behind others that tell where they are.
LEMMA TellAppend ==
  ASSUME NEW ts \in Seq(Tokens), NEW t \in Tokens, NEW lines, AllTell(ts, lines), Tells(t, lines)
  PROVE  AllTell(Append(ts, t), lines)
  <1> DEFINE us == Append(ts, t)
  <1>1. /\ DOMAIN ts = 1 .. Len(ts) /\ DOMAIN us = 1 .. Len(ts) + 1 /\ Len(ts) \in Nat
        /\ \A i \in 1 .. Len(ts) : us[i] = ts[i]
        /\ us[Len(ts) + 1] = t
    BY AppendAt
  <1> HIDE DEF us
  <1>2. ASSUME NEW k \in DOMAIN us PROVE Tells(us[k], lines)
    <2>1. k \in 1 .. Len(ts) \/ k = Len(ts) + 1
      BY <1>1
    <2> QED
      BY <1>1, <2>1 DEF AllTell
  <1>3. AllTell(us, lines)
    BY <1>2 DEF AllTell
  <1> QED
    BY <1>3 DEF us

\* Positions without a gap.
LEMMA Consecutive ==
  ASSUME NEW s \in Seq(Nat), s # <<>>, \A i \in 1 .. Len(s) - 1 : s[i + 1] = s[i] + 1
  PROVE  LastOf(s) = s[1] + Len(s) - 1
  <1>1. Len(s) \in Nat \ {0} /\ \A i \in 1 .. Len(s) : s[i] \in Nat
    OBVIOUS
  <1> DEFINE Off == {i \in 1 .. Len(s) : s[i] # s[1] + i - 1}
  <1>2. Off = {}
    <2> SUFFICES ASSUME Off # {} PROVE FALSE
      OBVIOUS
    <2>1. Off \in SUBSET Nat
      OBVIOUS
    <2>2. PICK i \in Off : \A j \in Off : i <= j
      BY <2>1, Least
    <2>3. i \in 1 .. Len(s) /\ s[i] # s[1] + i - 1
      OBVIOUS
    <2>4. i # 1
      BY <1>1, <2>3
    <2>5. i - 1 \in 1 .. Len(s) - 1 /\ i - 1 \in 1 .. Len(s) /\ ~(i <= i - 1) /\ (i - 1) + 1 = i
      BY <1>1, <2>3, <2>4
    <2>6. s[i - 1] = s[1] + (i - 1) - 1
      BY <2>2, <2>5
    <2>7. s[i] = s[i - 1] + 1
      BY <2>5
    <2>8. s[1] \in Nat /\ 1 \in 1 .. Len(s)
      BY <1>1, SMTT(20)
    <2> HIDE DEF Off
    <2> QED
      BY <2>3, <2>5, <2>6, <2>7, <2>8, SMTT(20)
  <1>3. Len(s) \in 1 .. Len(s)
    BY <1>1
  <1> QED
    BY <1>2, <1>3 DEF LastOf

\* A word of the buffer that ends here, or where its column may be wrong.
LEMMA WordTells ==
  ASSUME IInv, LInv, NEW s \in Seq(1 .. Len(code)), s # <<>>, Increasing(s),
         Positions(s) \subseteq Positions(tokenBuffer), Continues(s),
         \/ LastOf(s) + 1 = offset
         \/ At(LastOf(s) + 1) \in {"comment", "backslash", "return"},
         NEW t, IsWord(t), t.at = s, t.row = row,
         t.column = column - Len(s) \/ At(LastOf(s) + 1) \in {"comment", "backslash", "return", "open"}
  PROVE  Tells(t, Lines)
  <1> SUFFICES ASSUME Newlines(s[1]) \subseteq Lines, ~Crooked(t)
               PROVE  /\ t.row = Cardinality(Newlines(s[1]))
                      /\ \E p : LineStart(s[1], p) /\ t.column = s[1] - p - 1
    <2>1. CASE Crooked(t)
      <3>1. 1 \in DOMAIN s
        OBVIOUS
      <3>2. Pointed(s[1])
        BY <3>1 DEF LInv, Positions
      <3> QED
        BY <2>1, <3>2 DEF Tells, Pointed
    <2>2. CASE ~Crooked(t)
      BY <2>2 DEF Tells
    <2> QED
      BY <2>1, <2>2
  <1>1. /\ Len(s) \in Nat \ {0} /\ DOMAIN s = 1 .. Len(s) /\ s \in Seq(Nat)
        /\ \A i \in 1 .. Len(s) : s[i] \in 1 .. Len(code)
        /\ Len(code) \in Nat /\ offset \in Nat /\ column \in Int
    <2>1. Len(code) \in Nat /\ offset \in Nat /\ column \in Int
      BY WordTypes
    <2>2. Len(s) \in Nat \ {0} /\ DOMAIN s = 1 .. Len(s) /\ \A i \in 1 .. Len(s) : s[i] \in 1 .. Len(code)
      OBVIOUS
    <2>3. s \in Seq(Nat)
      <3>1. (1 .. Len(code)) \subseteq Nat
        BY <2>1
      <3> QED
        BY <3>1
    <2> QED
      BY <2>1, <2>2, <2>3
  <1>2. Pointed(s[1])
    <2>1. 1 \in DOMAIN s
      BY <1>1
    <2> QED
      BY <2>1 DEF LInv, Positions
  <1>3. PICK p : LineStart(s[1], p) /\ column = offset - p - 1
    BY <1>2 DEF Pointed
  <1>4. row = Cardinality(Newlines(s[1]))
    BY <1>2 DEF Pointed
  <1>5. LastOf(s) + 1 = offset /\ t.column = column - Len(s)
    BY DEF Crooked
  <1>6. ASSUME NEW i \in 1 .. Len(s) - 1 PROVE s[i + 1] = s[i] + 1
    <2>1. i \in 1 .. Len(s) /\ i + 1 \in 1 .. Len(s) /\ Len(s) \in 1 .. Len(s) /\ 1 \in 1 .. Len(s)
      BY <1>1
    <2>2. s[i + 1] = s[i] + 1 \/ At(s[i] + 1) = "backslash"
      BY DEF Continues
    <2>3. s[i] < s[i + 1] /\ s[i + 1] <= s[Len(s)] /\ s[1] <= s[i]
      <3>1. i < i + 1 /\ (i + 1 < Len(s) \/ i + 1 = Len(s)) /\ (1 < i \/ 1 = i)
        <4>1. Len(s) \in Nat /\ i \in 1 .. Len(s) - 1
          BY <1>1
        <4> QED
          BY <4>1
      <3>2. s[i] < s[i + 1]
        BY <1>1, <2>1, <3>1 DEF Increasing
      <3>3. s[i + 1] <= s[Len(s)]
        <4>1. CASE i + 1 < Len(s)
          <5>1. s[i + 1] < s[Len(s)]
            BY <1>1, <2>1, <4>1 DEF Increasing
          <5>2. s[i + 1] \in Nat /\ s[Len(s)] \in Nat
            BY <1>1, <2>1
          <5> QED
            BY <5>1, <5>2
        <4>2. CASE i + 1 = Len(s)
          BY <1>1, <2>1, <4>2
        <4> QED
          BY <3>1, <4>1, <4>2
      <3>4. s[1] <= s[i]
        <4>1. CASE 1 < i
          <5>1. s[1] < s[i]
            BY <1>1, <2>1, <4>1 DEF Increasing
          <5>2. s[1] \in Nat /\ s[i] \in Nat
            BY <1>1, <2>1
          <5> QED
            BY <5>1, <5>2
        <4>2. CASE 1 = i
          BY <1>1, <2>1, <4>2
        <4> QED
          BY <3>1, <4>1, <4>2
      <3> QED
        BY <3>2, <3>3, <3>4
    <2>4. s[i] \in 1 .. Len(code) /\ s[Len(s)] \in 1 .. Len(code) /\ s[1] \in Nat /\ s[i + 1] \in Nat
      BY <1>1, <2>1
    <2>5. s[i] + 1 \in s[1] .. LastOf(s) /\ s[i] + 1 \in 1 .. Len(code)
      BY <2>3, <2>4 DEF LastOf
    <2>6. CASE At(s[i] + 1) = "backslash"
      <3>1. code[s[i] + 1] = "backslash"
        BY <2>5, <2>6 DEF At
      <3> QED
        BY <2>5, <3>1 DEF Crooked
    <2> QED
      BY <2>2, <2>6
  <1>7. LastOf(s) = s[1] + Len(s) - 1
    BY <1>1, <1>6, Consecutive
  <1>8. p \in Int
    BY <1>3 DEF LineStart, Newlines
  <1>9. s[1] \in Nat /\ Len(s) \in Nat /\ column = offset - p - 1 /\ offset \in Nat
    BY <1>1, <1>3
  <1>10. t.column = s[1] - p - 1
    <2> DEFINE first == s[1]
               n     == Len(s)
               last  == LastOf(s)
    <2>1. /\ first \in Nat /\ n \in Nat /\ last = first + n - 1 /\ last + 1 = offset
          /\ t.column = column - n /\ column = offset - p - 1
      BY <1>5, <1>7, <1>9
    <2> HIDE DEF first, n, last
    <2>2. t.column = first - p - 1
      BY <1>8, <2>1
    <2> QED
      BY <2>2 DEF first
  <1>11. \E r : LineStart(s[1], r) /\ t.column = s[1] - r - 1
    BY <1>3, <1>10, Zenon
  <1>12. t.row = Cardinality(Newlines(s[1]))
    BY <1>4
  <1> QED
    BY <1>11, <1>12, Zenon

\* The three ways in which the actions flush tell where the word is, and end no line.
LEMMA FlushesTell ==
  ASSUME IInv, WInv, LInv, Here \notin WordCharacters, NEW ts,
         \/ ts = WithWord(tokenBuffer)
         \/ ts = WithWord(Trim(tokenBuffer))
         \/ ts = WithPrefix
  PROVE  AllTell(ts, Lines) /\ \A n : EolAt(ts, n) <=> EolAt(tokens, n)
  <1>1. /\ tokens \in Seq(Tokens) /\ AllTell(tokens, Lines) /\ TypeOK /\ column \in Int
        /\ tokenBuffer \in Seq(1 .. Len(code)) /\ Increasing(tokenBuffer)
    BY WordTypes DEF LInv, IInv, Ordered
  <1>2. ASSUME NEW t \in Tokens, IsWord(t), Tells(t, Lines)
        PROVE  /\ AllTell(Append(tokens, t), Lines)
               /\ \A n : EolAt(Append(tokens, t), n) <=> EolAt(tokens, n)
    <2>1. t.type # "EOL"
      BY <1>2 DEF IsWord
    <2>2. \A n : EolAt(Append(tokens, t), n) <=> EolAt(tokens, n) \/ (t.type = "EOL" /\ t.at = <<n>>)
      BY <1>1, EolAppend
    <2> QED
      BY <1>1, <1>2, <2>1, <2>2, TellAppend
  <1>3. tokenBuffer # <<>> =>
          /\ Continues(tokenBuffer)
          /\ \/ LastOf(tokenBuffer) + 1 = offset
             \/ At(LastOf(tokenBuffer) + 1) \in {"comment", "backslash", "return"}
    BY DEF WInv, WordSoFar
  <1>4. ASSUME NEW b \in Seq(1 .. Len(code)),
               b # <<>> => /\ Increasing(b) /\ Positions(b) \subseteq Positions(tokenBuffer) /\ Continues(b)
                           /\ \/ LastOf(b) + 1 = offset
                              \/ At(LastOf(b) + 1) \in {"comment", "backslash", "return"}
        PROVE  AllTell(WithWord(b), Lines) /\ \A n : EolAt(WithWord(b), n) <=> EolAt(tokens, n)
    <2>1. CASE b = <<>>
      BY <1>1, <2>1 DEF WithWord
    <2>2. CASE b # <<>>
      <3> DEFINE t == ParseToken(b)
      <3>1. t \in Tokens /\ t.at = b
        BY <1>1, WordType
      <3>2. IsWord(t) /\ t.row = row /\ t.column = column - Len(b)
        BY DEF ParseToken, Token, IsWord
      <3> HIDE DEF t
      <3>3. Tells(t, Lines)
        BY <1>4, <2>2, <3>1, <3>2, WordTells
      <3>4. WithWord(b) = Append(tokens, t)
        BY <2>2 DEF WithWord, t
      <3> QED
        BY <1>2, <3>1, <3>2, <3>3, <3>4
    <2> QED
      BY <2>1, <2>2
  <1>5. AllTell(WithWord(tokenBuffer), Lines) /\ \A n : EolAt(WithWord(tokenBuffer), n) <=> EolAt(tokens, n)
    BY <1>1, <1>3, <1>4
  <1>6. CASE ts = WithWord(tokenBuffer)
    BY <1>5, <1>6
  <1>7. CASE ts = WithWord(Trim(tokenBuffer))
    <2> DEFINE b == Trim(tokenBuffer)
    <2>1. b \in Seq(1 .. Len(code)) /\ Increasing(b) /\ Positions(b) \subseteq Positions(tokenBuffer)
      BY <1>1, TrimFacts
    <2>2. b # <<>> => /\ Continues(b)
                      /\ \/ tokenBuffer # <<>> /\ LastOf(b) = LastOf(tokenBuffer)
                         \/ At(LastOf(b) + 1) \in {"return", "backslash"}
      BY TrimParts
    <2> HIDE DEF b
    <2>3. b # <<>> => \/ LastOf(b) + 1 = offset
                      \/ At(LastOf(b) + 1) \in {"comment", "backslash", "return"}
      BY <1>3, <2>2
    <2>4. AllTell(WithWord(b), Lines) /\ \A n : EolAt(WithWord(b), n) <=> EolAt(tokens, n)
      BY <1>4, <2>1, <2>2, <2>3
    <2> QED
      BY <1>7, <2>4 DEF b
  <1>8. CASE ts = WithPrefix
    <2> DEFINE t == Token("KEYWORD", "BRACKET_PREFIX", tokenBuffer, column)
    <2>1. t \in Tokens /\ t.at = tokenBuffer
      <3>1. "BRACKET_PREFIX" \in Kinds
        BY DEF Kinds
      <3> QED
        BY <1>1, <3>1, TokenType
    <2>2. IsWord(t) /\ t.row = row
      BY DEF Token, IsWord
    <2> HIDE DEF t
    <2>3. CASE tokenBuffer # <<>> /\ Here = "open"
      <3>1. At(LastOf(tokenBuffer) + 1) \in {"comment", "backslash", "return", "open"}
        BY <1>3, <2>3 DEF Here
      <3>2. Tells(t, Lines)
        <4>1. Positions(tokenBuffer) \subseteq Positions(tokenBuffer)
          OBVIOUS
        <4> QED
          BY <1>1, <1>3, <2>1, <2>2, <2>3, <3>1, <4>1, WordTells
      <3>3. ts = Append(tokens, t)
        BY <1>8, <2>3 DEF WithPrefix, t
      <3> QED
        BY <1>2, <2>1, <2>2, <3>2, <3>3
    <2>4. CASE ~(tokenBuffer # <<>> /\ Here = "open")
      BY <1>5, <1>8, <2>4 DEF WithPrefix
    <2> QED
      BY <2>3, <2>4
  <1> QED
    BY <1>6, <1>7, <1>8

\* The column runs along with the offset, until a newline.
LEMMA PointedOn ==
  ASSUME IInv, NEW n \in Int, offset <= n, Advance(n), Here # "newline", Lines' = Lines,
         NEW q, Pointed(q)
  PROVE  Pointed(q)'
  <1>1. /\ code' = code /\ offset' = n + 1 /\ row' = row /\ column' = column + (n + 1 - offset)
        /\ offset \in Nat /\ column \in Int
    BY WordTypes DEF Advance
  <1>2. Newlines(q)' = Newlines(q) /\ \A p : LineStart(q, p)' <=> LineStart(q, p)
    BY <1>1, SameNewlines
  <1> SUFFICES ASSUME Newlines(q) \subseteq Lines
               PROVE  /\ row' = Cardinality(Newlines(q))
                      /\ \E p : LineStart(q, p) /\ column' = offset' - p - 1
    BY <1>2 DEF Pointed
  <1>3. PICK p : LineStart(q, p) /\ column = offset - p - 1
    BY DEF Pointed
  <1>4. p \in Int
    BY <1>3 DEF LineStart, Newlines
  <1>5. column' = offset' - p - 1
    BY <1>1, <1>3, <1>4
  <1> QED
    BY <1>1, <1>3, <1>5 DEF Pointed

\* So the next character is pointed at, if no newline was read over.
LEMMA PointedNext ==
  ASSUME IInv, NEW n \in Int, offset <= n, Advance(n), Here # "newline", Lines' = Lines,
         Pointed(offset)
  PROVE  Pointed(offset)'
  <1>1. code' = code /\ offset' = n + 1 /\ offset \in Nat \ {0} /\ n + 1 \in Nat
    BY WordTypes DEF Advance
  <1>2. /\ \A q : Newlines(q)' = Newlines(q)
        /\ \A q, p : LineStart(q, p)' <=> LineStart(q, p)
    BY <1>1, SameNewlines
  <1>3. CASE \E m \in offset .. n : At(m) = "newline"
    <2>1. PICK m \in offset .. n : At(m) = "newline"
      BY <1>3
    <2>2. m \in 1 .. (n + 1) - 1 /\ ~(m < offset)
      BY <1>1
    <2>3. m \in Newlines(n + 1)
      BY <2>1, <2>2 DEF Newlines
    <2>4. m \notin Lines
      BY <2>2, LinesRead
    <2>5. ~(Newlines(offset) \subseteq Lines)'
      BY <1>1, <1>2, <2>3, <2>4
    <2> QED
      BY <2>5 DEF Pointed
  <1>4. CASE \A m \in offset .. n : At(m) # "newline"
    <2> DEFINE o == n + 1
    <2>1. o - 1 = n /\ offset <= o /\ o \in Nat
      BY <1>1
    <2> HIDE DEF o
    <2>2. Newlines(o) = Newlines(offset)
      BY <1>1, <1>4, <2>1, NewlinesSame
    <2>3. Pointed(o)
      BY <2>2 DEF Pointed, LineStart
    <2>4. Pointed(o)'
      BY <2>3, PointedOn
    <2>5. offset' = o
      BY <1>1 DEF o
    <2> QED
      BY <1>2, <2>4, <2>5 DEF Pointed
  <1> QED
    BY <1>3, <1>4

\* A token at the offset.
LEMMA HereTells ==
  ASSUME IInv, LInv, NEW type, NEW kind, NEW at, at[1] = offset
  PROVE  Tells(Token(type, kind, at, column), Lines)
  <1> DEFINE t == Token(type, kind, at, column)
  <1>1. t.at = at /\ t.row = row /\ t.column = column
    BY DEF Token
  <1> HIDE DEF t
  <1>2. Tells(t, Lines)
    BY <1>1 DEF LInv, Pointed, Tells
  <1> QED
    BY <1>2 DEF t

\* The tokens of the next state tell where they are, as the source is the same.
LEMMA TellStep ==
  ASSUME code' = code, AllTell(tokens', Lines')
  PROVE  AllTell(tokens, Lines)'
  <1>1. \A q : Newlines(q)' = Newlines(q)
    BY SameNewlines
  <1>2. \A q, p : LineStart(q, p)' <=> LineStart(q, p)
    BY SameNewlines
  <1>3. \A p : At(p)' = At(p)
    BY SameCode
  <1> QED
    BY <1>1, <1>2, <1>3 DEF AllTell, Tells, Crooked

\* The tokens and the buffer stay as they are.
LEMMA SameTell ==
  ASSUME IInv, LInv, UNCHANGED <<code, offset, tokens, tokenBuffer, row, column>>
  PROVE  LInv'
  <1>1. Lines' = Lines
    BY DEF Lines
  <1>2. AllTell(tokens, Lines)'
    BY <1>1, TellStep DEF LInv
  <1>3. \A q : Pointed(q)' <=> Pointed(q)
    BY <1>1, SameNewlines DEF Pointed
  <1>4. Pointed(offset)' /\ \A q \in Positions(tokenBuffer') : Pointed(q)'
    BY <1>3 DEF LInv, Pointed, LineStart, Newlines, At
  <1> QED
    BY <1>2, <1>4 DEF LInv

\* A token of the characters from here on that ends no line, with the word
\* before it.
LEMMA ReadTells ==
  ASSUME IInv, LInv, Here # "newline", NEW n \in Int, offset <= n, Advance(n),
         NEW ts \in Seq(Tokens), AllTell(ts, Lines), \A m : EolAt(ts, m) <=> EolAt(tokens, m),
         NEW type \in {"QUOTE", "BRACKET", "terminal"}, NEW kind \in Kinds,
         NEW at \in Seq(1 .. Len(code)), at[1] = offset,
         tokens' = Append(ts, Token(type, kind, at, column)), tokenBuffer' = <<>>
  PROVE  LInv'
  <1> DEFINE t == Token(type, kind, at, column)
  <1>1. t \in Tokens /\ t.type # "EOL"
    <2>1. t \in Tokens
      BY WordTypes, TokenType
    <2>2. t.type = type
      BY DEF Token
    <2> QED
      BY <2>1, <2>2
  <1>2. Tells(t, Lines)
    BY HereTells
  <1> HIDE DEF t
  <1>3. tokens' = Append(ts, t) /\ code' = code
    BY DEF t, Advance
  <1>4. AllTell(Append(ts, t), Lines)
    BY <1>1, <1>2, TellAppend
  <1>5. \A m : EolAt(Append(ts, t), m) <=> EolAt(tokens, m)
    BY <1>1, EolAppend
  <1>6. Lines' = Lines
    <2>1. \A m : m \in Lines' <=> m \in 1 .. Len(code') /\ code'[m] = "newline" /\ EolAt(tokens', m)
      BY DEF Lines, EolAt
    <2> QED
      BY <1>3, <1>5, <2>1, LinesRead
  <1>7. AllTell(tokens, Lines)'
    BY <1>3, <1>4, <1>6, TellStep
  <1>8. Pointed(offset)'
    BY <1>6, PointedNext DEF LInv
  <1>9. Positions(tokenBuffer') = {}
    BY DEF Positions
  <1> QED
    BY <1>7, <1>8, <1>9 DEF LInv

\* A content that is read to its end, or not.
LEMMA FetchTells ==
  ASSUME IInv, LInv, Reading, Here # "newline", NEW type \in {"QUOTE", "BRACKET"},
         NEW ts \in Seq(Tokens), AllTell(ts, Lines), \A m : EolAt(ts, m) <=> EolAt(tokens, m),
         NEW ends \in SUBSET (offset + 1 .. Len(code)), Fetch(type, ts, ends)
  PROVE  LInv'
  <1>1. CASE Throw("UNTERMINATED_STRING")
    BY <1>1, SameTell DEF Throw
  <1>2. ASSUME NEW p \in ends, tokens' = Append(ts, Token(type, Here, Stretch(p), column)),
               tokenBuffer' = <<>>, Advance(p)
        PROVE  LInv'
    <2>1. p \in 1 .. Len(code) /\ offset <= p /\ p \in Int /\ offset \in Nat
      BY HereFacts
    <2>2. Stretch(p) \in Seq(1 .. Len(code))
      BY <2>1, StretchFacts
    <2>3. Here \in Kinds
      BY HereFacts DEF Kinds
    <2>4. Stretch(p)[1] = offset
      <3>1. 1 \in 1 .. p + 1 - offset /\ offset + 1 - 1 = offset
        BY <2>1
      <3> QED
        BY <3>1 DEF Stretch
    <2> QED
      BY <1>2, <2>1, <2>2, <2>3, <2>4, ReadTells
  <1> QED
    BY <1>1, <1>2 DEF Fetch

\* A quote tells where it begins.
LEMMA QuoteTells == ASSUME IInv, LInv, Quote PROVE LInv'
  <1>1. CASE Throw("UNKNOWN_TOKEN")
    BY <1>1, SameTell DEF Throw
  <1>2. CASE Fetch("QUOTE", tokens, QuoteEnd)
    <2>1. QuoteEnd \in SUBSET (offset + 1 .. Len(code))
      BY DEF QuoteEnd
    <2>2. Reading /\ Here # "newline"
      BY DEF Quote, Quotes
    <2>3. tokens \in Seq(Tokens) /\ AllTell(tokens, Lines)
      BY WordTypes DEF LInv
    <2> QED
      BY <1>2, <2>1, <2>2, <2>3, FetchTells
  <1> QED
    BY <1>1, <1>2 DEF Quote

\* So does a bracket, or its content, behind the prefix.
LEMMA BracketTells == ASSUME IInv, WInv, LInv, Bracket PROVE LInv'
  <1>1. Reading /\ Here \in Brackets /\ Here \notin WordCharacters /\ Here # "newline"
    BY DEF Bracket, Brackets, WordCharacters
  <1>2. WithPrefix \in Seq(Tokens)
    BY Flushes DEF Flushed
  <1>3. AllTell(WithPrefix, Lines) /\ \A n : EolAt(WithPrefix, n) <=> EolAt(tokens, n)
    BY <1>1, FlushesTell
  <1>4. CASE Throw("UNKNOWN_TOKEN")
    BY <1>4, SameTell DEF Throw
  <1>5. CASE Fetch("BRACKET", WithPrefix, BracketEnd)
    <2>1. BracketEnd \in SUBSET (offset + 1 .. Len(code))
      BY DEF BracketEnd
    <2> QED
      BY <1>1, <1>2, <1>3, <1>5, <2>1, FetchTells
  <1>6. CASE /\ tokens' = Append(WithPrefix, Token("BRACKET", Here, <<offset>>, column))
             /\ tokenBuffer' = <<>>
             /\ Advance(offset)
    <2>1. Here \in Kinds /\ <<offset>> \in Seq(1 .. Len(code)) /\ offset \in Int /\ offset <= offset
      BY <1>1, HereFacts DEF Kinds
    <2>2. <<offset>>[1] = offset
      OBVIOUS
    <2> QED
      BY <1>1, <1>2, <1>3, <1>6, <2>1, <2>2, ReadTells
  <1> QED
    BY <1>4, <1>5, <1>6 DEF Bracket

\* So do terminals.
LEMMA TerminalTells ==
  ASSUME IInv, WInv, LInv, PairTerminal \/ Terminal
  PROVE  LInv'
  <1>1. /\ Reading /\ Here \notin WordCharacters /\ Here # "newline"
        /\ PairTerminal => At(offset + 1) # "undefined"
    BY DEF PairTerminal, Terminal, Terminals, IsPair, Ahead, Pairs, WordCharacters
  <1> DEFINE ts == WithWord(Trim(tokenBuffer))
  <1>2. ts \in Seq(Tokens)
    BY Flushes DEF Flushed
  <1>3. AllTell(ts, Lines) /\ \A n : EolAt(ts, n) <=> EolAt(tokens, n)
    BY <1>1, FlushesTell
  <1>4. /\ "none" \in Kinds /\ offset \in Int /\ offset + 1 \in Int /\ offset \in 1 .. Len(code)
        /\ offset <= offset /\ offset <= offset + 1
    BY <1>1, HereFacts DEF Kinds
  <1>5. <<offset>>[1] = offset /\ <<offset, offset + 1>>[1] = offset
    OBVIOUS
  <1>6. CASE Terminal
    <2>1. <<offset>> \in Seq(1 .. Len(code))
      BY <1>4
    <2>2. /\ tokens' = Append(ts, Token("terminal", "none", <<offset>>, column))
          /\ tokenBuffer' = <<>> /\ Advance(offset)
      BY <1>6 DEF Terminal, AppendCharToken
    <2> HIDE DEF ts
    <2> QED
      BY <1>1, <1>2, <1>3, <1>4, <1>5, <2>1, <2>2, ReadTells
  <1>7. CASE PairTerminal
    <2>1. offset + 1 \in 1 .. Len(code)
      BY <1>1, <1>4, <1>7 DEF At
    <2>2. <<offset, offset + 1>> \in Seq(1 .. Len(code))
      BY <1>4, <2>1
    <2>3. /\ tokens' = Append(ts, Token("terminal", "none", <<offset, offset + 1>>, column))
          /\ tokenBuffer' = <<>> /\ Advance(offset + 1)
      BY <1>7 DEF PairTerminal, AppendCharToken
    <2> HIDE DEF ts
    <2> QED
      BY <1>1, <1>2, <1>3, <1>4, <1>5, <2>2, <2>3, ReadTells
  <1> QED
    BY <1>6, <1>7

\* Tokens up to here tell as much when a line ends here.
LEMMA TellMore ==
  ASSUME IInv, NEW ts \in Seq(Tokens), AllTell(ts, Lines),
         \A i \in DOMAIN ts : \A p \in Positions(ts[i].at) : p <= offset
  PROVE  AllTell(ts, Lines \cup {offset})
  <1> SUFFICES ASSUME NEW k \in DOMAIN ts, ts[k].at # <<>>,
                      Newlines(ts[k].at[1]) \subseteq Lines \cup {offset}
               PROVE  Newlines(ts[k].at[1]) \subseteq Lines
    BY DEF AllTell, Tells
  <1>1. ts[k] \in Tokens
    OBVIOUS
  <1>2. ts[k].at \in Seq(1 .. Len(code))
    BY <1>1 DEF Tokens
  <1>3. 1 \in DOMAIN ts[k].at /\ ts[k].at[1] \in 1 .. Len(code)
    BY <1>2
  <1>4. ts[k].at[1] \in Positions(ts[k].at)
    BY <1>3 DEF Positions
  <1>5. ts[k].at[1] <= offset /\ ts[k].at[1] \in Nat /\ offset \in Nat
    BY <1>3, <1>4, WordTypes
  <1>6. offset \notin Newlines(ts[k].at[1])
    BY <1>5 DEF Newlines
  <1> QED
    BY <1>6

\* The newline ends a line: the row counts it and the column starts anew.
LEMMA EndOfLineTells == ASSUME IInv, WInv, LInv, EndOfLine PROVE LInv'
  <1>1. Reading /\ Here = "newline" /\ Here \notin WordCharacters
    BY DEF EndOfLine, WordCharacters
  <1> DEFINE ts == WithWord(Trim(tokenBuffer))
             t  == Token("EOL", "none", <<offset>>, column)
  <1>2. ts \in Seq(Tokens) /\ Ordered(ts, <<>>, offset)
    BY Flushes DEF Flushed
  <1>3. AllTell(ts, Lines) /\ \A n : EolAt(ts, n) <=> EolAt(tokens, n)
    BY <1>1, FlushesTell
  <1>4. /\ offset \in 1 .. Len(code) /\ Len(code) \in Nat /\ code[offset] = "newline"
        /\ code \in Seq(Characters)
    BY <1>1, HereFacts
  <1>5. t \in Tokens /\ t.type = "EOL" /\ t.at = <<offset>>
    <2>1. "none" \in Kinds /\ <<offset>> \in Seq(1 .. Len(code))
      BY <1>4 DEF Kinds
    <2>2. t \in Tokens
      BY <2>1, WordTypes, TokenType
    <2> QED
      BY <2>2 DEF Token
  <1>6. Tells(t, Lines)
    <2>1. <<offset>>[1] = offset
      OBVIOUS
    <2> QED
      BY <2>1, HereTells
  <1>7. /\ tokens' = Append(ts, t) /\ tokenBuffer' = <<>> /\ code' = code
        /\ offset' = offset + 1 /\ row' = row + 1 /\ column' = 0
    BY <1>1 DEF EndOfLine, AppendCharToken, Advance
  <1> HIDE DEF ts, t
  <1> DEFINE us == Append(ts, t)
  <1>8. us \in Seq(Tokens) /\ AllTell(us, Lines)
    BY <1>2, <1>3, <1>5, <1>6, AppendAt, TellAppend
  <1>9. ASSUME NEW i \in DOMAIN us, NEW p \in Positions(us[i].at) PROVE p <= offset
    <2>1. Holds(us, p)
      BY DEF Holds
    <2>2. Holds(ts, p) \/ p \in Positions(t.at)
      BY <1>2, <1>5, <2>1, HoldsAppend
    <2>3. CASE Holds(ts, p)
      <3>1. PICK j \in DOMAIN ts : p \in Positions(ts[j].at)
        BY <2>3 DEF Holds
      <3>2. p < offset
        BY <1>2, <3>1 DEF Ordered
      <3>3. p \in Nat
        BY <1>2, <1>4, <3>1, PositionsOfTokens
      <3> QED
        BY <1>4, <3>2, <3>3
    <2>4. CASE p \in Positions(t.at)
      <3>1. p = offset
        BY <1>5, <2>4 DEF Positions
      <3> QED
        BY <1>4, <3>1
    <2> QED
      BY <2>2, <2>3, <2>4
  <1>10. AllTell(us, Lines \cup {offset})
    <2> HIDE DEF us
    <2> QED
      BY <1>8, <1>9, TellMore
  <1>11. Lines' = Lines \cup {offset}
    <2>1. \A m : m \in Lines' <=> m \in 1 .. Len(code) /\ code[m] = "newline" /\ EolAt(tokens', m)
      BY <1>7 DEF Lines, EolAt
    <2>2. \A m : EolAt(tokens', m) <=> EolAt(tokens, m) \/ (t.type = "EOL" /\ t.at = <<m>>)
      BY <1>2, <1>3, <1>5, <1>7, EolAppend
    <2>3. \A m : t.at = <<m>> <=> m = offset
      BY <1>5
    <2> QED
      BY <1>4, <1>5, <2>1, <2>2, <2>3, LinesRead
  <1>12. AllTell(tokens, Lines)'
    BY <1>7, <1>10, <1>11, TellStep
  <1>13. Pointed(offset)'
    <2> DEFINE o == offset + 1
    <2>1. o \in Nat /\ o - 1 = offset /\ offset \in Nat /\ offset < o
      BY <1>4
    <2>2. Newlines(o) = Newlines(offset) \cup {offset}
      <3>1. At(offset) = "newline"
        BY <1>4 DEF At
      <3>2. \A n : n \in 1 .. offset <=> n \in 1 .. offset - 1 \/ n = offset
        BY <1>4
      <3> QED
        BY <2>1, <3>1, <3>2 DEF Newlines
    <2>3. Cardinality(Newlines(o)) = Cardinality(Newlines(offset)) + 1
      <3>1. IsFiniteSet(Newlines(offset)) /\ offset \notin Newlines(offset)
        BY <2>1, NewlinesFinite
      <3> QED
        BY <2>2, <3>1, FS_AddElement
    <2>4. LineStart(o, offset)
      <3>1. \A n \in Newlines(offset) : n \in Nat /\ n < offset
        BY <2>1, NewlinesFinite
      <3>2. \A n \in Newlines(offset) : n <= offset
        BY <2>1, <3>1
      <3> QED
        BY <2>1, <2>2, <3>2 DEF LineStart
    <2>5. 0 = o - offset - 1
      BY <2>1
    <2> HIDE DEF o
    <2>6. Newlines(o) \subseteq Lines \cup {offset} => Newlines(offset) \subseteq Lines
      <3>1. offset \notin Newlines(offset)
        BY <2>1, NewlinesFinite
      <3> QED
        BY <2>2, <3>1
    <2>7. Newlines(o) \subseteq Lines' =>
            /\ row' = Cardinality(Newlines(o))
            /\ LineStart(o, offset) /\ column' = o - offset - 1
      BY <1>7, <1>11, <2>3, <2>4, <2>5, <2>6 DEF LInv, Pointed
    <2>8. /\ \A q : Newlines(q)' = Newlines(q)
          /\ \A q, p : LineStart(q, p)' <=> LineStart(q, p)
          /\ offset' = o
      BY <1>7, SameNewlines DEF o
    <2> QED
      BY <2>7, <2>8 DEF Pointed
  <1>14. Positions(tokenBuffer') = {}
    BY <1>7 DEF Positions
  <1> QED
    BY <1>12, <1>13, <1>14 DEF LInv

\* The lines are those for which there is a token.
LEMMA LinesSame ==
  ASSUME IInv, code' = code, \A m : EolAt(tokens', m) <=> EolAt(tokens, m)
  PROVE  Lines' = Lines
  <1>1. \A m : m \in Lines' <=> m \in 1 .. Len(code) /\ code[m] = "newline" /\ EolAt(tokens', m)
    BY DEF Lines, EolAt
  <1> QED
    BY <1>1, LinesRead

\* A remark and the end of a broken line leave the word as it is, a letter joins it.
LEMMA WordGoesOn ==
  ASSUME IInv, LInv, Continuation \/ Comment \/ Letter
  PROVE  LInv'
  <1>1. /\ Here # "newline" /\ tokens' = tokens /\ code' = code /\ offset \in Nat /\ Len(code) \in Nat
        /\ offset <= Len(code)
    BY WordTypes DEF Continuation, Comment, Letter, IsLetter, IsSign, Advance, Reading
  <1>2. Lines' = Lines
    BY <1>1 DEF Lines
  <1>3. \E n \in Int : offset <= n /\ Advance(n)
    <2>1. CASE Advance(Len(code) + 1)
      <3>1. Len(code) + 1 \in Int /\ offset <= Len(code) + 1
        BY <1>1
      <3> QED
        BY <2>1, <3>1
    <2>2. ASSUME NEW n \in LineEnd, Advance(n - 1) \/ Advance(n + 1)
          PROVE  \E m \in Int : offset <= m /\ Advance(m)
      <3>1. n \in offset + 1 .. Len(code)
        BY LineEndFacts
      <3>2. n - 1 \in Int /\ n + 1 \in Int /\ offset <= n - 1 /\ offset <= n + 1
        BY <1>1, <3>1
      <3> QED
        BY <2>2, <3>2
    <2>3. CASE Letter
      <3>1. offset \in Int /\ offset <= offset
        BY <1>1
      <3> QED
        BY <2>3, <3>1 DEF Letter
    <2> QED
      BY <2>1, <2>2, <2>3 DEF Continuation, Comment
  <1>4. PICK n \in Int : offset <= n /\ Advance(n)
    BY <1>3
  <1>5. Pointed(offset)'
    BY <1>1, <1>2, <1>4, PointedNext DEF LInv
  <1>6. ASSUME NEW q \in Positions(tokenBuffer') PROVE Pointed(q)'
    <2>1. Pointed(q)
      <3>1. CASE tokenBuffer' = tokenBuffer
        BY <3>1 DEF LInv
      <3>2. CASE tokenBuffer' = Append(tokenBuffer, offset)
        <4>1. /\ tokenBuffer \in Seq(1 .. Len(code)) /\ Len(tokenBuffer) \in Nat
          BY WordTypes
        <4> DEFINE c == Append(tokenBuffer, offset)
                   L == Len(tokenBuffer)
        <4>2. DOMAIN c = 1 .. L + 1 /\ c[L + 1] = offset /\ \A i \in 1 .. L : c[i] = tokenBuffer[i]
          <5>1. tokenBuffer \in Seq(Nat)
            <6>1. (1 .. Len(code)) \subseteq Nat
              BY <1>1
            <6> QED
              BY <4>1, <6>1
          <5>2. Append(tokenBuffer, offset) \in Seq(Nat) /\ Len(Append(tokenBuffer, offset)) = Len(tokenBuffer) + 1
            BY <1>1, <5>1, AppendProperties
          <5> QED
            BY <1>1, <5>1, <5>2, AppendProperties
        <4>3. DOMAIN tokenBuffer = 1 .. L
          BY <4>1
        <4> HIDE DEF c, L
        <4>4. PICK i \in 1 .. L + 1 : q = c[i]
          BY <3>2, <4>2 DEF Positions, c
        <4>5. L \in Nat /\ (i \in 1 .. L \/ i = L + 1)
          BY <4>1, <4>4 DEF L
        <4>6. q \in Positions(tokenBuffer) \/ q = offset
          BY <4>2, <4>3, <4>4, <4>5 DEF Positions
        <4> QED
          BY <4>6 DEF LInv
      <3> QED
        BY <3>1, <3>2 DEF Continuation, Comment, Letter
    <2> QED
      BY <1>1, <1>2, <1>4, <2>1, PointedOn
  <1>7. AllTell(tokens, Lines)'
    BY <1>1, <1>2, TellStep DEF LInv
  <1> QED
    BY <1>5, <1>6, <1>7 DEF LInv

\* A blank ends the word.
LEMMA BlankTells == ASSUME IInv, WInv, LInv, Blank PROVE LInv'
  <1>1. /\ Here = "blank" /\ Here \notin WordCharacters /\ code' = code /\ Advance(offset)
        /\ tokens' = WithWord(tokenBuffer) /\ tokenBuffer' = <<>> /\ offset \in Int /\ offset <= offset
    BY WordTypes DEF Blank, WordCharacters, Advance
  <1>2. /\ AllTell(WithWord(tokenBuffer), Lines)
        /\ \A n : EolAt(WithWord(tokenBuffer), n) <=> EolAt(tokens, n)
    BY <1>1, FlushesTell
  <1>3. Lines' = Lines
    BY <1>1, <1>2, LinesSame
  <1>4. AllTell(tokens, Lines)'
    BY <1>1, <1>2, <1>3, TellStep
  <1>5. Pointed(offset)'
    BY <1>1, <1>3, PointedNext DEF LInv
  <1>6. Positions(tokenBuffer') = {}
    BY <1>1 DEF Positions
  <1> QED
    BY <1>4, <1>5, <1>6 DEF LInv

\* The end of the source ends the word, and its own token is nowhere.
LEMMA EndOfFileTells == ASSUME IInv, WInv, LInv, EndOfFile PROVE LInv'
  <1>1. Here = "undefined" /\ Here \notin WordCharacters
    BY WordTypes DEF EndOfFile, WordCharacters, Here, At
  <1> DEFINE ts == WithWord(tokenBuffer)
             t  == Token("EOF", "none", <<>>, column)
  <1>2. ts \in Seq(Tokens)
    BY Flushes DEF Flushed
  <1>3. AllTell(ts, Lines) /\ \A n : EolAt(ts, n) <=> EolAt(tokens, n)
    BY <1>1, FlushesTell
  <1>4. t \in Tokens /\ t.at = <<>> /\ t.type = "EOF"
    <2>1. "none" \in Kinds /\ <<>> \in Seq(1 .. Len(code))
      BY DEF Kinds
    <2>2. t \in Tokens
      BY <2>1, WordTypes, TokenType
    <2> QED
      BY <2>2 DEF Token
  <1>5. /\ tokens' = Append(ts, t) /\ tokenBuffer' = <<>>
        /\ UNCHANGED <<code, offset, row, column>>
    BY DEF EndOfFile
  <1> HIDE DEF ts, t
  <1>6. AllTell(Append(ts, t), Lines)
    BY <1>2, <1>3, <1>4, TellAppend DEF Tells
  <1>7. Lines' = Lines
    <2>1. \A m : EolAt(tokens', m) <=> EolAt(tokens, m)
      BY <1>2, <1>3, <1>4, <1>5, EolAppend
    <2> QED
      BY <1>5, <2>1, LinesSame
  <1>8. AllTell(tokens, Lines)'
    BY <1>5, <1>6, <1>7, TellStep
  <1>9. Pointed(offset)'
    <2>1. /\ \A q : Newlines(q)' = Newlines(q)
          /\ \A q, p : LineStart(q, p)' <=> LineStart(q, p)
      BY <1>5, SameNewlines
    <2> QED
      BY <1>5, <1>7, <2>1 DEF LInv, Pointed
  <1>10. Positions(tokenBuffer') = {}
    BY <1>5 DEF Positions
  <1> QED
    BY <1>8, <1>9, <1>10 DEF LInv

\* Every action keeps the places right.
LEMMA TellInductive == IInv /\ WInv /\ LInv /\ [Next]_vars => LInv'
  <1> SUFFICES ASSUME IInv, WInv, LInv, [Next]_vars PROVE LInv'
    OBVIOUS
  <1>1. CASE Continuation \/ Comment \/ Letter
    BY <1>1, WordGoesOn
  <1>2. CASE Quote
    BY <1>2, QuoteTells
  <1>3. CASE Bracket
    BY <1>3, BracketTells
  <1>4. CASE EndOfLine
    BY <1>4, EndOfLineTells
  <1>5. CASE PairTerminal \/ Terminal
    BY <1>5, TerminalTells
  <1>6. CASE Blank
    BY <1>6, BlankTells
  <1>7. CASE EndOfFile
    BY <1>7, EndOfFileTells
  <1>8. CASE UNCHANGED vars
    BY <1>8, SameTell DEF vars
  <1> QED
    BY <1>1, <1>2, <1>3, <1>4, <1>5, <1>6, <1>7, <1>8 DEF Next

\* The first character is the first of the first line.
LEMMA TellInitial == Init => LInv
  <1> SUFFICES ASSUME Init PROVE LInv
    OBVIOUS
  <1>1. tokens = <<>> /\ tokenBuffer = <<>> /\ offset = 1 /\ row = 0 /\ column = 0
    BY DEF Init
  <1>2. Newlines(1) = {}
    BY DEF Newlines
  <1>3. Pointed(1)
    <2>1. LineStart(1, 0) /\ column = offset - 0 - 1
      BY <1>1, <1>2 DEF LineStart
    <2> QED
      BY <1>1, <1>2, <2>1, FS_EmptySet DEF Pointed
  <1> QED
    BY <1>1, <1>3 DEF LInv, AllTell, Positions

(***************************************************************************)
(* Whatever the text and the configuration, a token tells its row, and its *)
(* column if it is no word that a remark, a carriage return, a broken line *)
(* or the bracket of a call follows, as long as every newline before it    *)
(* ended a line (loc, Lexer.parseCharacter).                               *)
(***************************************************************************)
THEOREM PlacesAreTold == Spec => []LocationsPoint
  <1>1. IInv /\ LInv => LocationsPoint
    <2> SUFFICES ASSUME IInv, LInv, NEW k \in DOMAIN tokens, tokens[k].at # <<>>,
                        NewlinesBefore(tokens[k].at[1]) \subseteq Lines
                 PROVE  LET t     == tokens[k]
                            first == t.at[1]
                            lines == NewlinesBefore(first)
                        IN  /\ t.row = Cardinality(lines)
                            /\ \/ IsWord(t) /\ At(LastOf(t.at) + 1) \in {"comment", "backslash", "return", "open"}
                               \/ IsWord(t) /\ "backslash" \in {code[p] : p \in first .. LastOf(t.at)}
                               \/ \E p \in {0} \cup lines :
                                    (\A n \in lines : n <= p) /\ t.column = first - p - 1
      BY DEF LocationsPoint
    <2> DEFINE t     == tokens[k]
               first == t.at[1]
    <2>1. t \in Tokens /\ Len(code) \in Nat
      BY WordTypes
    <2>2. t.at \in Seq(1 .. Len(code))
      BY <2>1 DEF Tokens
    <2>3. first \in 1 .. Len(code)
      BY <2>2
    <2>4. NewlinesBefore(first) = Newlines(first)
      <3>1. \A n \in 1 .. first - 1 : n \in 1 .. Len(code)
        BY <2>1, <2>3
      <3>2. \A n \in 1 .. first - 1 : At(n) = code[n]
        BY <3>1 DEF At
      <3> QED
        BY <3>2 DEF NewlinesBefore, Newlines
    <2>5. Tells(t, Lines)
      BY DEF LInv, AllTell
    <2>6. /\ t.row = Cardinality(Newlines(first))
          /\ Crooked(t) \/ \E p : LineStart(first, p) /\ t.column = first - p - 1
      BY <2>4, <2>5 DEF Tells
    <2>7. CASE Crooked(t)
      BY <2>4, <2>6, <2>7 DEF Crooked
    <2>8. CASE \E p : LineStart(first, p) /\ t.column = first - p - 1
      BY <2>4, <2>6, <2>8 DEF LineStart
    <2> QED
      BY <2>6, <2>7, <2>8
  <1> QED
    BY <1>1, Initial, Inductive, WholeInitial, WholeInductive, TellInitial, TellInductive, PTL DEF Spec
=============================================================================
