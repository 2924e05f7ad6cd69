---------------------------- MODULE CommonLemmas ----------------------------
(***************************************************************************)
(* Facts that several proofs need: of records appended to a log and        *)
(* manifests written anew, as sequences of whose elements nothing need be  *)
(* known; of least numbers; of finite sets and what is counted in them.    *)
(***************************************************************************)
EXTENDS Sequences, Integers, Functions, SequenceTheorems, FiniteSetTheorems, WellFoundedInduction, TLAPS

\* Appending keeps what is there, and adds one element.
LEMMA AppendKeeps ==
  ASSUME NEW s, s \in Seq(Range(s)), NEW x
  PROVE  /\ Append(s, x) \in Seq(Range(Append(s, x)))
         /\ DOMAIN s \subseteq DOMAIN Append(s, x)
         /\ \A i \in DOMAIN s : Append(s, x)[i] = s[i]
         /\ \E n \in DOMAIN Append(s, x) :
              /\ n \notin DOMAIN s /\ Append(s, x)[n] = x
              /\ \A i \in DOMAIN Append(s, x) : i # n => i \in DOMAIN s
<1> DEFINE t == Append(s, x)
<1>1. /\ t \in Seq(Range(s) \cup {x}) /\ Len(t) = Len(s) + 1
      /\ s \in Seq(Range(s) \cup {x})
  BY SeqMonotonic
<1>2. DOMAIN s = 1..Len(s) /\ DOMAIN t = 1..Len(t) /\ Len(s) \in Nat
  BY <1>1, LenProperties
<1>3. \A i \in DOMAIN s : t[i] = s[i]
  BY <1>1, <1>2
<1>4. t[Len(s) + 1] = x
  BY <1>1
<1>5. \A i \in DOMAIN t : i \in DOMAIN s \/ i = Len(s) + 1
  BY <1>1, <1>2
<1>6. t \in Seq(Range(t))
  BY <1>1, SeqOfRange
<1>7. QED BY <1>1, <1>2, <1>3, <1>4, <1>5, <1>6

\* Writing one element keeps the others.
LEMMA ExceptKeeps ==
  ASSUME NEW s, s \in Seq(Range(s)), NEW k, NEW x
  PROVE  LET t == [s EXCEPT ![k] = x] IN
         /\ t \in Seq(Range(t))
         /\ DOMAIN t = DOMAIN s
         /\ \A i \in DOMAIN s : t[i] = IF i = k THEN x ELSE s[i]
<1> DEFINE t == [s EXCEPT ![k] = x]
<1>1. DOMAIN s = 1..Len(s) /\ Len(s) \in Nat
  BY LenProperties
<1>2. t \in [1..Len(s) -> Range(t)]
  BY <1>1 DEF Range
<1>3. t \in Seq(Range(t))
  BY <1>1, <1>2, SeqDef
<1>4. QED BY <1>1, <1>3

\* A sequence, whatever its elements.
IsLog(s) == s \in Seq(Range(s))

LEMMA LogLength ==
  ASSUME NEW s, IsLog(s)
  PROVE  Len(s) \in Nat /\ DOMAIN s = 1..Len(s) /\ (Len(s) = 0 <=> s = <<>>)
BY LenProperties, EmptySeq DEF IsLog

LEMMA EmptyLog == IsLog(<<>>) /\ Len(<<>>) = 0 /\ DOMAIN <<>> = {}
BY EmptySeq DEF IsLog

LEMMA AppendLog ==
  ASSUME NEW s, IsLog(s), NEW x
  PROVE  /\ IsLog(Append(s, x)) /\ Len(Append(s, x)) = Len(s) + 1
         /\ \A i \in 1..Len(s) : Append(s, x)[i] = s[i]
         /\ Append(s, x)[Len(s) + 1] = x
<1>1. IsLog(Append(s, x))
  BY AppendKeeps DEF IsLog
<1>2. s \in Seq(Range(s) \cup {x})
  BY SeqMonotonic DEF IsLog
<1>3. QED BY <1>1, <1>2, AppendProperties

-----------------------------------------------------------------------------
(* Numbers *)

\* What holds of no least number holds of none: induction, for provers without it.
LEMMA LeastOf ==
  ASSUME NEW T \in SUBSET Nat, T # {}
  PROVE  \E n \in T : \A m \in T : n <= m
<1> DEFINE R == OpToRel(<, Nat)
<1>1. \E n \in T : \A m \in T : <<m, n>> \notin R
  BY NatLessThanWellFounded, WFMin
<1>2. \A n, m \in Nat : m < n => <<m, n>> \in R
  BY DEF OpToRel
<1> HIDE DEF R
<1>3. PICK n \in T : \A m \in T : <<m, n>> \notin R
  BY <1>1
<1>4. \A m \in T : ~(m < n)
  BY <1>2, <1>3
<1>5. QED BY <1>4

-----------------------------------------------------------------------------
(* Finite sets. *)

LEMMA TriplesAreFinite == \A x, y, z : IsFiniteSet({x, y, z})
<1> SUFFICES ASSUME NEW x, NEW y, NEW z PROVE IsFiniteSet({x, y, z})
  OBVIOUS
<1>1. {x, y, z} = ({x} \cup {y}) \cup {z}
  OBVIOUS
<1>2. IsFiniteSet({x} \cup {y})
  BY FS_Singleton, FS_Union
<1>3. IsFiniteSet(({x} \cup {y}) \cup {z})
  BY <1>2, FS_Singleton, FS_Union
<1>4. QED BY <1>1, <1>3
=============================================================================
