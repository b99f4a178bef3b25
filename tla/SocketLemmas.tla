---------------------------- MODULE SocketLemmas ----------------------------
(***************************************************************************)
(* Facts about sockets, as the modules have them: sequences that grow at   *)
(* their end and shrink at their head.                                     *)
(***************************************************************************)
EXTENDS Integers, Sequences, TLAPS

(* The messages of a socket are numbered from 1.                           *)
LEMMA SocketDomain ==
  ASSUME NEW S, NEW s \in Seq(S)
  PROVE  /\ Len(s) \in Nat
         /\ DOMAIN s = 1 .. Len(s)
         /\ \A k \in DOMAIN s : k \in Nat \ {0} /\ k < Len(s) + 1 /\ s[k] \in S
         /\ s # <<>> <=> 1 \in DOMAIN s
OBVIOUS

(* A message is put at the end, the others stay.                           *)
LEMMA SocketSend ==
  ASSUME NEW S, NEW s \in Seq(S), NEW m \in S
  PROVE  /\ Append(s, m) \in Seq(S)
         /\ Append(s, m) # <<>>
         /\ Len(Append(s, m)) = Len(s) + 1
         /\ DOMAIN Append(s, m) = DOMAIN s \cup {Len(s) + 1}
         /\ \A k \in DOMAIN s : Append(s, m)[k] = s[k]
         /\ Append(s, m)[Len(s) + 1] = m
OBVIOUS

(* A message is taken from the head, the others move up by one.            *)
LEMMA SocketRecv ==
  ASSUME NEW S, NEW s \in Seq(S), s # <<>>
  PROVE  /\ Head(s) \in S
         /\ 1 \in DOMAIN s /\ Head(s) = s[1]
         /\ Tail(s) \in Seq(S)
         /\ Len(Tail(s)) = Len(s) - 1
         /\ \A k \in DOMAIN Tail(s) : k + 1 \in DOMAIN s /\ Tail(s)[k] = s[k + 1]
         /\ \A k \in DOMAIN s : k # 1 => k - 1 \in DOMAIN Tail(s) /\ Tail(s)[k - 1] = s[k]
OBVIOUS

(* A socket starts empty.                                                  *)
LEMMA SocketEmpty ==
  ASSUME NEW S
  PROVE  <<>> \in Seq(S) /\ DOMAIN <<>> = {} /\ Len(<<>>) = 0
OBVIOUS

(* The messages in a socket, and that there is no message twice.           *)
Contents(s) == {s[k] : k \in DOMAIN s}
Distinct(s) == \A j, k \in DOMAIN s : s[j] = s[k] => j = k

(* A message that is new keeps the messages distinct.                      *)
LEMMA ContentsSend ==
  ASSUME NEW S, NEW s \in Seq(S), NEW m \in S
  PROVE  /\ Contents(Append(s, m)) = Contents(s) \cup {m}
         /\ Distinct(s) /\ m \notin Contents(s) => Distinct(Append(s, m))
<1> DEFINE a == Append(s, m)
<1>1. /\ DOMAIN a = DOMAIN s \cup {Len(s) + 1}
      /\ \A k \in DOMAIN s : a[k] = s[k]
      /\ a[Len(s) + 1] = m
  BY SocketSend
<1> HIDE DEF a
<1> QED
  BY <1>1 DEF Contents, Distinct, a

(* What is left is the rest; of distinct messages none is read twice.      *)
LEMMA ContentsRecv ==
  ASSUME NEW S, NEW s \in Seq(S), s # <<>>
  PROVE  /\ Contents(s) = Contents(Tail(s)) \cup {Head(s)}
         /\ Distinct(s) => Distinct(Tail(s)) /\ Head(s) \notin Contents(Tail(s))
<1> DEFINE t == Tail(s)
<1>1. /\ 1 \in DOMAIN s /\ Head(s) = s[1]
      /\ \A k \in DOMAIN t : k + 1 \in DOMAIN s /\ t[k] = s[k + 1] /\ k + 1 # 1
      /\ \A k \in DOMAIN s : k # 1 => k - 1 \in DOMAIN t /\ t[k - 1] = s[k]
      /\ \A j, k \in DOMAIN t : j + 1 = k + 1 => j = k
  OBVIOUS
<1> HIDE DEF t
<1>2. \A k \in DOMAIN s : s[k] \in Contents(t) \cup {Head(s)}
  <2> TAKE k \in DOMAIN s
  <2>1. CASE k = 1
    BY <1>1, <2>1
  <2>2. CASE k # 1
    BY <1>1, <2>2 DEF Contents
  <2> QED
    BY <2>1, <2>2
<1>3. \A k \in DOMAIN t : t[k] \in Contents(s)
  BY <1>1 DEF Contents
<1>4. Contents(s) = Contents(t) \cup {Head(s)}
  BY <1>1, <1>2, <1>3 DEF Contents
<1>5. ASSUME Distinct(s)
      PROVE  Distinct(t) /\ Head(s) \notin Contents(t)
  <2>1. Distinct(t)
    BY <1>1, <1>5 DEF Distinct
  <2>2. \A k \in DOMAIN t : t[k] # Head(s)
    BY <1>1, <1>5 DEF Distinct
  <2> QED
    BY <2>1, <2>2 DEF Contents
<1> QED
  BY <1>4, <1>5 DEF t
=============================================================================
