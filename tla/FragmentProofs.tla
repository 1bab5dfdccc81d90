--------------------------- MODULE FragmentProofs ---------------------------
(***************************************************************************)
(* Theorems about the fragmentation of one stream, for every text, every   *)
(* cap of the sender and every cap of the receiver.                        *)
(*                                                                         *)
(* The invariant FragInv says three things.  The frames on the wire form   *)
(* a chain (OnTheWire): each begins at the byte where the one before it    *)
(* ended, and the last one ends where the generator goes on.  The receiver *)
(* waits exactly at the first of them, with the bytes before it in its     *)
(* hands (Receiving).  What it resets or fails has a cap as its reason     *)
(* (Blaming).                                                              *)
(*                                                                         *)
(* That the generator never cuts a text inside a character, nor sends a    *)
(* fragment that had room for one more unit (Filled), rests on             *)
(* LargestFittingCount: the bisection finds the largest count that fits    *)
(* because whether a budget fits falls only once from true to false.  What *)
(* it computes from a search is established by least counterexample on the *)
(* width of the search.                                                    *)
(***************************************************************************)
EXTENDS Fragment, FiniteSetTheorems, SequenceTheorems, WellFoundedInduction, TLAPS

-----------------------------------------------------------------------------
(* The inductive invariant.                                                *)

(* A sequence, of whatever it holds.                                       *)
IsList(s) == s \in Seq({s[n] : n \in DOMAIN s})

Payloads == 1 .. Len(setup.payloads)

(* Where the codec may cut. *)
Place(k, c) == ~setup.text \/ c = Total(k) \/ ~IsContinuation(k, c + 1)

(* Not one unit more would have gone. *)
Filled(k, start, count) ==
    LET end == start + count
        more == count + FirstUnitWidth(k, end)
    IN  end = Total(k) \/ more > Budget \/ ~Fits(k, start = 0, FALSE, start, more)

(* A frame the splitter made: "open" or "data", not the reset of the lane. *)
IsData(f) == f.type # "reset"

(* What the splitter puts into such a frame.                               *)
Sound(f) ==
    /\ f.payload \in Payloads /\ f.start \in Nat /\ f.count \in Nat /\ f.size \in Nat
    /\ f.whole \in BOOLEAN /\ f.headers \in BOOLEAN /\ f.end \in BOOLEAN /\ f.more \in BOOLEAN
    /\ f.type = IF f.payload = 1 /\ setup.opens THEN "open" ELSE "data"
    /\ f.start + f.count <= Total(f.payload)
    /\ f.size <= setup.cap
    /\ Place(f.payload, f.start + f.count)
    /\ IF f.more THEN f.count > 0 /\ Filled(f.payload, f.start, f.count)
                 ELSE f.start + f.count = Total(f.payload)
    /\ f.whole => f.start = 0 /\ ~f.more
    /\ f.end = (f.payload = Len(setup.payloads) /\ ~f.more)
    /\ f.headers => f.payload = 1 /\ f.start = 0

(* The splitter stands in a payload of the stream, or after the last.      *)
Sending ==
    /\ current \in Nat \ {0} /\ position \in Nat /\ emitted \in Nat
    /\ current <= Len(setup.payloads) + 1
    /\ IF current <= Len(setup.payloads) THEN position <= Total(current) ELSE position = 0
    /\ emitted <= position /\ (emitted = 0 => position = 0)
    /\ sender \in {"open", "ended", "unencodable", "reset"}

(* Where the stream goes on after a frame, and where the receiver finds    *)
(* it going on at the i-th frame of the wire.                              *)
Ahead(f) == IF f.more THEN f.payload ELSE f.payload + 1
After(f) == <<Ahead(f), IF f.more THEN f.start + f.count ELSE 0>>

GoesOn(i) == IF i <= Len(wire) /\ IsData(wire[i]) THEN <<wire[i].payload, wire[i].start>>
             ELSE <<current, position>>

(* The frames in flight are a chain that ends where the splitter stands; a *)
(* reset is the last of them.                                              *)
OnTheWire ==
    /\ IsList(wire)
    /\ \A i \in 1 .. Len(wire) :
          IsData(wire[i]) => /\ Sound(wire[i]) /\ After(wire[i]) = GoesOn(i + 1)
                             /\ Ahead(wire[i]) <= current
    /\ \A i \in 1 .. Len(wire) :
          ~IsData(wire[i]) => i = Len(wire) /\ sender \in {"unencodable", "reset"}
    /\ \A i, j \in 1 .. Len(wire) : i < j /\ IsData(wire[j]) => Ahead(wire[i]) <= wire[j].payload

(* The receiver still takes the frames of the stream.                      *)
Live == stream \in {"none", "open", "ended"}

(* A cap of the receiver is below what the sender may send.                *)
TooLarge == \/ setup.cap > setup.maxFrame
            \/ \E k \in Payloads : Total(k) > setup.maxPayload

(* The receiver has whole payloads and the beginning of the next one, and  *)
(* the head of the chain goes on exactly there.                            *)
Receiving ==
    /\ stream \in {"none", "open", "ended", "closed", "connection failed"}
    /\ opening \in BOOLEAN
    /\ IsList(received) /\ IsList(parts)
    /\ Len(received) <= Len(setup.payloads)
    /\ \A k \in 1 .. Len(received) : received[k] = [i \in 1 .. Total(k) |-> <<k, i>>]
    /\ parts = [i \in 1 .. Len(parts) |-> <<Len(received) + 1, i>>]
    /\ Len(parts) <= setup.maxPayload
    /\ Live => GoesOn(1) = <<Len(received) + 1, Len(parts)>>
    /\ stream = "none" => setup.opens /\ received = <<>>
    /\ opening => setup.opens /\ stream = "open" /\ received = <<>>
    /\ setup.opens /\ stream \in {"open", "ended"} /\ ~opening => received # <<>>
    /\ stream = "ended" => Len(received) = Len(setup.payloads)
    /\ stream # "open" => parts = <<>>

(* Who is blamed, and for what.                                            *)
Blaming ==
    /\ IsList(back)
    /\ \A i \in 1 .. Len(back) : back[i] = "CANCELLED" \/ (back[i] = "PAYLOAD_TOO_LARGE" /\ TooLarge)
    /\ stream = "connection failed" => setup.opens /\ TooLarge
    /\ stream = "closed" /\ ~TooLarge =>
          /\ \A i \in 1 .. Len(wire) : wire[i].type # "open"
          /\ ~(setup.opens /\ current = 1 /\ sender = "open")

FragInv == /\ setup \in Setups /\ Sending /\ OnTheWire /\ Receiving /\ Blaming
           /\ RefusesOnlyHopeless

-----------------------------------------------------------------------------
(* Extremes of sets of numbers.                                            *)

LEMMA LeastExists ==
  ASSUME NEW T, T \subseteq Nat, T # {}
  PROVE  \E x \in T : \A y \in T : x <= y
<1>1. IsWellFoundedOn(OpToRel(<, Nat), Nat) BY NatLessThanWellFounded
<1>2. PICK x \in T : \A y \in T : ~(<<y, x>> \in OpToRel(<, Nat)) BY <1>1, WFMin
<1>3. \A y \in T : ~(y < x)
  <2>1. ASSUME NEW y \in T, y < x PROVE <<y, x>> \in OpToRel(<, Nat) BY <2>1 DEF OpToRel
  <2> QED BY <1>2, <2>1
<1>4. x \in Nat /\ \A y \in T : y \in Nat OBVIOUS
<1> QED BY <1>3, <1>4

LEMMA MinFacts ==
  ASSUME NEW T, T \subseteq Nat, T # {}
  PROVE  Min(T) \in T /\ \A y \in T : Min(T) <= y
<1>1. \E x \in T : \A y \in T : x =< y BY LeastExists
<1> QED BY <1>1 DEF Min

LEMMA MaxFacts ==
  ASSUME NEW T, T \subseteq Nat, T # {}, NEW b \in Nat, \A y \in T : y <= b
  PROVE  Max(T) \in T /\ \A y \in T : y <= Max(T)
<1> DEFINE R == {b - y : y \in T}
<1>1. R \subseteq Nat /\ R # {}
  <2>1. \A y \in T : y \in Nat /\ b - y \in Nat OBVIOUS
  <2> QED BY <2>1
<1>2. PICK r \in R : \A q \in R : r <= q BY <1>1, LeastExists
<1>3. PICK x \in T : r = b - x OBVIOUS
<1>4. ASSUME NEW y \in T PROVE x >= y
  <2>1. b - x <= b - y BY <1>2, <1>3
  <2>2. x \in Nat /\ y \in Nat OBVIOUS
  <2> QED BY <2>1, <2>2
<1>5. \E m \in T : \A y \in T : m >= y BY <1>4
<1>6. Max(T) \in T /\ \A y \in T : Max(T) >= y
  <2> HIDE DEF R
  <2> QED BY <1>5 DEF Max
<1> QED BY <1>6

-----------------------------------------------------------------------------
(* Sequences of whatever is in them.                                       *)

LEMMA ListFacts ==
  ASSUME NEW s, IsList(s)
  PROVE  /\ Len(s) \in Nat /\ DOMAIN s = 1 .. Len(s)
         /\ s = << >> <=> Len(s) = 0
         /\ s = [n \in 1 .. Len(s) |-> s[n]]
<1>1. DOMAIN s = 1 .. Len(s) /\ Len(s) \in Nat /\ (s = << >> <=> Len(s) = 0) BY DEF IsList
<1>2. s = [n \in 1 .. Len(s) |-> s[n]]
  <2> DEFINE S == {s[n] : n \in DOMAIN s}
  <2>1. s \in Seq(S) BY DEF IsList
  <2> HIDE DEF S
  <2>2. s \in [1 .. Len(s) -> S] BY <2>1
  <2> QED BY <2>2
<1> QED BY <1>1, <1>2

LEMMA SeqIsList == ASSUME NEW S, NEW s \in Seq(S) PROVE IsList(s)
<1>1. DOMAIN s = 1 .. Len(s) /\ Len(s) \in Nat OBVIOUS
<1> DEFINE T == {s[n] : n \in DOMAIN s}
<1>2. \A n \in 1 .. Len(s) : s[n] \in T BY <1>1
<1>3. s = [n \in 1 .. Len(s) |-> s[n]] BY <1>1
<1> HIDE DEF T
<1>4. s \in [1 .. Len(s) -> T] BY <1>2, <1>3
<1>5. s \in Seq(T) BY <1>1, <1>4
<1> QED BY <1>5 DEF IsList, T

LEMMA AppendFacts ==
  ASSUME NEW s, IsList(s), NEW e
  PROVE  /\ IsList(Append(s, e)) /\ Len(Append(s, e)) = Len(s) + 1
         /\ \A i \in 1 .. Len(s) : Append(s, e)[i] = s[i]
         /\ Append(s, e)[Len(s) + 1] = e
         /\ Append(s, e) # << >>
<1> DEFINE S == {s[n] : n \in DOMAIN s} \cup {e}
<1>1. s \in Seq(S)
  <2>1. s \in Seq({s[n] : n \in DOMAIN s}) BY DEF IsList
  <2> QED BY <2>1
<1>2. e \in S OBVIOUS
<1> HIDE DEF S
<1>3. Append(s, e) \in Seq(S) BY <1>1, <1>2
<1>4. IsList(Append(s, e)) BY <1>3, SeqIsList
<1> QED BY <1>1, <1>2, <1>3, <1>4

LEMMA TailFacts ==
  ASSUME NEW s, IsList(s), s # << >>
  PROVE  /\ IsList(Tail(s)) /\ Len(Tail(s)) = Len(s) - 1 /\ Len(s) \in Nat \ {0}
         /\ \A i \in 1 .. Len(s) - 1 : Tail(s)[i] = s[i + 1]
         /\ Head(s) = s[1]
<1> DEFINE S == {s[n] : n \in DOMAIN s}
<1>1. s \in Seq(S) BY DEF IsList
<1> HIDE DEF S
<1>2. Tail(s) \in Seq(S) BY <1>1
<1>3. IsList(Tail(s)) BY <1>2, SeqIsList
<1> QED BY <1>1, <1>2, <1>3

LEMMA ConcatFacts ==
  ASSUME NEW s, IsList(s), NEW t, IsList(t)
  PROVE  /\ IsList(s \o t) /\ Len(s \o t) = Len(s) + Len(t)
         /\ \A i \in 1 .. Len(s) + Len(t) : (s \o t)[i] = IF i <= Len(s) THEN s[i] ELSE t[i - Len(s)]
         /\ s \o t = [i \in 1 .. Len(s) + Len(t) |-> IF i <= Len(s) THEN s[i] ELSE t[i - Len(s)]]
<1> DEFINE S == {s[n] : n \in DOMAIN s} \cup {t[n] : n \in DOMAIN t}
<1>1. s \in Seq(S) /\ t \in Seq(S)
  <2>1. s \in Seq({s[n] : n \in DOMAIN s}) /\ t \in Seq({t[n] : n \in DOMAIN t}) BY DEF IsList
  <2> QED BY <2>1
<1> HIDE DEF S
<1>2. s \o t \in Seq(S) BY <1>1
<1>3. IsList(s \o t) BY <1>2, SeqIsList
<1>4. Len(s \o t) = Len(s) + Len(t)
      /\ \A i \in 1 .. Len(s) + Len(t) : (s \o t)[i] = IF i <= Len(s) THEN s[i] ELSE t[i - Len(s)]
  BY <1>1
<1>5. DOMAIN (s \o t) = 1 .. Len(s) + Len(t) BY <1>2, <1>4
<1>6. PICK u : u = s \o t OBVIOUS
<1>7. u = [i \in 1 .. Len(u) |-> u[i]] BY <1>3, <1>6, ListFacts
<1>8. u = [i \in 1 .. Len(s) + Len(t) |-> IF i <= Len(s) THEN s[i] ELSE t[i - Len(s)]]
  BY <1>4, <1>6, <1>7
<1> QED BY <1>3, <1>4, <1>6, <1>8

-----------------------------------------------------------------------------
(* The splitter.                                                           *)

LEMMA SetupFacts ==
  ASSUME setup \in Setups
  PROVE  /\ Len(setup.payloads) \in Nat /\ IsList(setup.payloads)
         /\ \A k \in Payloads : Total(k) \in Nat /\ DOMAIN Bytes(k) = 1 .. Total(k)
         /\ setup.text \in BOOLEAN /\ setup.opens \in BOOLEAN
         /\ setup.cap \in Nat /\ setup.maxFrame \in Nat /\ setup.maxPayload \in Nat
         /\ setup.headers \in Nat /\ setup.trailers \in Nat /\ setup.more \in Nat
         /\ setup.envelope \in Nat
         /\ Budget \in Nat \ {0}
<1> DEFINE B == Seq({"plain", "quoted", "lead", "cont"})
<1>1. setup \in Setup BY SetupsAssumption
<1>2. /\ setup.payloads \in Seq(B)
      /\ setup.text \in BOOLEAN /\ setup.opens \in BOOLEAN
      /\ setup.cap \in Nat /\ setup.maxFrame \in Nat /\ setup.maxPayload \in Nat
      /\ setup.headers \in Nat /\ setup.trailers \in Nat /\ setup.more \in Nat
      /\ setup.envelope \in Nat
  BY <1>1 DEF Setup
<1> HIDE DEF B
<1>3. \A k \in Payloads : Bytes(k) \in B BY <1>2 DEF Payloads, Bytes
<1>4. \A k \in Payloads : Total(k) \in Nat /\ DOMAIN Bytes(k) = 1 .. Total(k) BY <1>3 DEF Total, B
<1>5. Len(setup.payloads) \in Nat /\ IsList(setup.payloads) BY <1>2, SeqIsList
<1>6. Budget \in Nat \ {0}
  <2>1. Reserve \in Nat BY SetupsAssumption
  <2>2. Reservation \in Nat BY <1>2, <2>1 DEF Reservation
  <2> QED BY <1>2, <2>2 DEF Budget
<1> QED BY <1>2, <1>4, <1>5, <1>6

Quoted(k, start, count) == {i \in (start + 1) .. (start + count) : Bytes(k)[i] = "quoted"}

LEMMA CostFacts ==
  ASSUME NEW k, NEW start \in Nat, NEW count \in Nat
  PROVE  /\ IsFiniteSet(Quoted(k, start, count))
         /\ Cost(k, start, count) = count + Cardinality(Quoted(k, start, count))
         /\ Cost(k, start, count) \in Nat /\ count <= Cost(k, start, count)
<1>1. IsFiniteSet((start + 1) .. (start + count)) BY FS_Interval
<1>2. Quoted(k, start, count) \subseteq (start + 1) .. (start + count) BY DEF Quoted
<1>3. IsFiniteSet(Quoted(k, start, count)) BY <1>1, <1>2, FS_Subset
<1>4. Cardinality(Quoted(k, start, count)) \in Nat BY <1>3, FS_CardinalityType
<1>5. Cost(k, start, count) = count + Cardinality(Quoted(k, start, count)) BY DEF Cost, Quoted
<1> QED BY <1>3, <1>4, <1>5

(* A slice of a slice costs no more.                                       *)
LEMMA CostGrows ==
  ASSUME NEW k, NEW start \in Nat, NEW count \in Nat, NEW from \in Nat, NEW n \in Nat,
         start <= from, from + n <= start + count
  PROVE  Cost(k, from, n) <= Cost(k, start, count)
<1>1. Quoted(k, from, n) \subseteq Quoted(k, start, count) BY DEF Quoted
<1>2. Cardinality(Quoted(k, from, n)) <= Cardinality(Quoted(k, start, count))
  BY <1>1, CostFacts, FS_Subset
<1>3. Cardinality(Quoted(k, from, n)) \in Nat /\ Cardinality(Quoted(k, start, count)) \in Nat
  BY CostFacts, FS_CardinalityType
<1>4. n <= count OBVIOUS
<1> QED BY <1>2, <1>3, <1>4, CostFacts

LEMMA SizeFacts ==
  ASSUME setup \in Setups, NEW k \in Nat, NEW first \in BOOLEAN, NEW last \in BOOLEAN,
         NEW content \in Nat
  PROVE  /\ Size(k, first, last, content) \in Nat
         /\ content <= Size(k, first, last, content)
         /\ \A less \in Nat, f \in BOOLEAN :
               less <= content /\ (f => first) => Size(k, f, last, less) <= Size(k, first, last, content)
<1>1. /\ setup.headers \in Nat /\ setup.trailers \in Nat /\ setup.more \in Nat /\ setup.envelope \in Nat
  BY SetupFacts
<1> DEFINE h(f) == IF IsFirst(k, f) THEN setup.headers ELSE 0
           t == IF IsLast(k, last) THEN setup.trailers ELSE 0
           m == IF last THEN 0 ELSE setup.more
<1>2. \A f, c : Size(k, f, last, c) = setup.envelope + c + h(f) + t + m BY DEF Size
<1>3. t \in Nat /\ m \in Nat BY <1>1
<1>4. \A f \in BOOLEAN : h(f) \in Nat /\ ((f => first) => h(f) <= h(first)) BY <1>1 DEF IsFirst
<1> HIDE DEF h, t, m
<1>5. ASSUME NEW less \in Nat, NEW f \in BOOLEAN, less <= content, f => first
      PROVE  Size(k, f, last, less) <= Size(k, first, last, content)
  BY <1>1, <1>2, <1>3, <1>4, <1>5
<1> QED BY <1>1, <1>2, <1>3, <1>4, <1>5

(* What fits, fits with less.                                              *)
LEMMA FitsLess ==
  ASSUME setup \in Setups, NEW k \in Nat, NEW first \in BOOLEAN, NEW last \in BOOLEAN,
         NEW start \in Nat, NEW count \in Nat, Fits(k, first, last, start, count),
         NEW f \in BOOLEAN, f => first, NEW from \in Nat, NEW n \in Nat,
         start <= from, from + n <= start + count
  PROVE  Fits(k, f, last, from, n)
<1>1. Cost(k, from, n) <= Cost(k, start, count) BY CostGrows
<1>2. Cost(k, from, n) \in Nat /\ Cost(k, start, count) \in Nat BY CostFacts
<1>3. Size(k, f, last, Cost(k, from, n)) <= Size(k, first, last, Cost(k, start, count))
  BY <1>1, <1>2, SizeFacts
<1>4. Size(k, f, last, Cost(k, from, n)) \in Nat /\ Size(k, first, last, Cost(k, start, count)) \in Nat
  BY <1>2, SizeFacts
<1>5. setup.cap \in Nat BY SetupFacts
<1> QED BY <1>3, <1>4, <1>5 DEF Fits, FragmentSize

LEMMA FitsShorter ==
  ASSUME setup \in Setups, NEW k \in Payloads, NEW start \in 0 .. Total(k), NEW first \in BOOLEAN,
         NEW count \in Nat, Fits(k, first, FALSE, start, count), NEW n \in Nat, n <= count
  PROVE  Fits(k, first, FALSE, start, n)
<1>1. start \in Nat /\ k \in Nat /\ start <= start /\ start + n <= start + count
  BY SetupFacts DEF Payloads
<1> QED BY <1>1, FitsLess

(* boundaryWithin: the last place to cut within the limit.                 *)
LEMMA BoundaryFacts ==
  ASSUME setup \in Setups, NEW k \in Payloads, NEW start \in 0 .. Total(k), NEW limit \in Nat
  PROVE  LET b == BoundaryWithin(k, start, limit)
         IN  /\ b \in Nat /\ b <= limit /\ start + b <= Total(k)
             /\ b = 0 \/ Place(k, start + b)
             /\ \A c \in start .. Total(k) : c <= start + limit /\ Place(k, c) => c <= start + b
<1> DEFINE cut == IF start + limit < Total(k) THEN start + limit ELSE Total(k)
           ok(c) == ~setup.text \/ c = start \/ c = Total(k) \/ ~IsContinuation(k, c + 1)
           S == {c \in start .. cut : ok(c)}
           m == Max(S)
<1>1. Total(k) \in Nat /\ start \in Nat /\ start <= Total(k) BY SetupFacts
<1>2. cut \in Nat /\ start <= cut /\ cut <= start + limit /\ cut <= Total(k) BY <1>1
<1>3. BoundaryWithin(k, start, limit) = m - start BY DEF BoundaryWithin
<1>4. \A c \in start .. Total(k) : c <= start + limit => c <= cut BY <1>1
<1> HIDE DEF cut
<1>5. start \in S BY <1>1, <1>2
<1>6. S \subseteq Nat /\ \A c \in S : c <= cut BY <1>1, <1>2
<1>7. \A c : c \in S => c \in start .. cut /\ (c = start \/ Place(k, c)) BY DEF Place
<1>8. \A c \in start .. cut : Place(k, c) => c \in S BY DEF Place
<1> HIDE DEF S
<1>9. m \in S /\ \A c \in S : c <= m BY <1>2, <1>5, <1>6, MaxFacts
<1> HIDE DEF m
<1>10. m \in Nat /\ start <= m /\ m <= cut /\ (m = start \/ Place(k, m)) BY <1>1, <1>2, <1>7, <1>9
<1>11. start + (m - start) = m BY <1>1, <1>10
<1>12. \A c \in start .. Total(k) : c <= start + limit /\ Place(k, c) => c <= m
  <2> SUFFICES ASSUME NEW c \in start .. Total(k), c <= start + limit, Place(k, c) PROVE c <= m
    OBVIOUS
  <2>1. c <= cut BY <1>4
  <2>2. c \in start .. cut BY <1>1, <1>2, <2>1
  <2> QED BY <1>8, <1>9, <2>2
<1>13. m - start \in Nat /\ m - start <= limit BY <1>1, <1>2, <1>10
<1>14. m - start = 0 \/ Place(k, start + (m - start))
  <2>1. CASE m = start BY <1>1, <2>1
  <2>2. CASE Place(k, m) BY <1>11, <2>2
  <2> QED BY <1>10, <2>1, <2>2
<1> DEFINE b == m - start
<1>15. b \in Nat /\ b <= limit /\ start + b <= Total(k)
  BY <1>1, <1>2, <1>10, <1>11, <1>13
<1>16. b = 0 \/ Place(k, start + b) BY <1>14
<1>17. \A c \in start .. Total(k) : c <= start + limit /\ Place(k, c) => c <= start + b
  BY <1>11, <1>12
<1>18. BoundaryWithin(k, start, limit) = b BY <1>3
<1> HIDE DEF b
<1> QED BY <1>15, <1>16, <1>17, <1>18

LEMMA BoundaryGrows ==
  ASSUME setup \in Setups, NEW k \in Payloads, NEW start \in 0 .. Total(k),
         NEW limit \in Nat, NEW more \in Nat, limit <= more
  PROVE  BoundaryWithin(k, start, limit) <= BoundaryWithin(k, start, more)
<1> DEFINE b == BoundaryWithin(k, start, limit)
           d == BoundaryWithin(k, start, more)
<1>1. /\ b \in Nat /\ b <= limit /\ start + b <= Total(k) /\ (b = 0 \/ Place(k, start + b))
  BY BoundaryFacts
<1>2. /\ d \in Nat
      /\ \A c \in start .. Total(k) : c <= start + more /\ Place(k, c) => c <= start + d
  BY BoundaryFacts
<1>3. Total(k) \in Nat /\ start \in Nat BY SetupFacts
<1> HIDE DEF b, d
<1>4. ASSUME b = 0 PROVE b <= d BY <1>2, <1>4
<1>5. ASSUME Place(k, start + b) PROVE b <= d
  <2>1. start + b \in start .. Total(k) /\ start + b <= start + more BY <1>1, <1>3
  <2>2. start + b <= start + d BY <1>2, <1>5, <2>1
  <2> QED BY <1>1, <1>2, <1>3, <2>2
<1>6. b <= d BY <1>1, <1>4, <1>5
<1> QED BY <1>6 DEF b, d

(* A place to cut is its own boundary.                                     *)
LEMMA BoundaryAt ==
  ASSUME setup \in Setups, NEW k \in Payloads, NEW start \in 0 .. Total(k),
         NEW n \in Nat, start + n <= Total(k), n = 0 \/ Place(k, start + n)
  PROVE  BoundaryWithin(k, start, n) = n
<1> DEFINE b == BoundaryWithin(k, start, n)
<1>1. /\ b \in Nat /\ b <= n
      /\ \A c \in start .. Total(k) : c <= start + n /\ Place(k, c) => c <= start + b
  BY BoundaryFacts
<1>2. Total(k) \in Nat /\ start \in Nat BY SetupFacts
<1> HIDE DEF b
<1>3. ASSUME n = 0 PROVE b = n BY <1>1, <1>3
<1>4. ASSUME Place(k, start + n) PROVE b = n
  <2>1. start + n \in start .. Total(k) BY <1>2
  <2>2. start + n <= start + b BY <1>1, <1>4, <2>1
  <2> QED BY <1>1, <1>2, <2>2
<1>5. b = n BY <1>3, <1>4
<1> QED BY <1>5 DEF b

(* firstUnitWidth: the first place to cut.                                 *)
LEMMA UnitFacts ==
  ASSUME setup \in Setups, NEW k \in Payloads, NEW start \in 0 .. Total(k), start < Total(k)
  PROVE  LET w == FirstUnitWidth(k, start)
         IN  /\ w \in Nat \ {0} /\ start + w <= Total(k) /\ Place(k, start + w)
             /\ \A c \in start + 1 .. Total(k) : Place(k, c) => start + w <= c
<1> DEFINE S == {w \in 1 .. Total(k) - start : start + w = Total(k) \/ ~IsContinuation(k, start + w + 1)}
           w == FirstUnitWidth(k, start)
<1>1. Total(k) \in Nat /\ start \in Nat /\ setup.text \in BOOLEAN BY SetupFacts
<1>2. CASE ~setup.text
  <2>1. w = 1 BY <1>2 DEF FirstUnitWidth
  <2> QED BY <1>1, <1>2, <2>1 DEF Place
<1>3. CASE setup.text
  <2>1. w = Min(S) BY <1>3 DEF FirstUnitWidth
  <2>2. S \subseteq Nat /\ Total(k) - start \in S BY <1>1
  <2>3. \A n : n \in S => n \in 1 .. Total(k) - start /\ Place(k, start + n) BY DEF Place
  <2>4. \A n \in 1 .. Total(k) - start : Place(k, start + n) => n \in S BY <1>3 DEF Place
  <2> HIDE DEF S
  <2>5. Min(S) \in S /\ \A n \in S : Min(S) <= n BY <2>2, MinFacts
  <2> HIDE DEF w
  <2>6. w \in 1 .. Total(k) - start /\ Place(k, start + w) BY <2>1, <2>3, <2>5
  <2>7. ASSUME NEW c \in start + 1 .. Total(k), Place(k, c) PROVE start + w <= c
    <3>1. c - start \in 1 .. Total(k) - start /\ start + (c - start) = c BY <1>1
    <3>2. c - start \in S BY <2>4, <2>7, <3>1
    <3>3. w <= c - start BY <2>1, <2>5, <3>2
    <3> QED BY <1>1, <2>6, <3>3
  <2>8. w \in Nat \ {0} /\ start + w <= Total(k) BY <1>1, <2>6
  <2> QED BY <2>6, <2>7, <2>8 DEF w
<1> QED BY <1>1, <1>2, <1>3

-----------------------------------------------------------------------------
(* The bisection.                                                          *)

LEMMA MaxIs ==
  ASSUME NEW T, T \subseteq Nat, NEW x \in T, \A y \in T : y <= x
  PROVE  Max(T) = x
<1>1. Max(T) \in T /\ \A y \in T : y <= Max(T) BY MaxFacts
<1>2. Max(T) \in Nat /\ x \in Nat /\ x <= Max(T) /\ Max(T) <= x BY <1>1
<1> QED BY <1>2

FitsAt(k, start, first, limit) == Fits(k, first, FALSE, start, BoundaryWithin(k, start, limit))

Fitting(k, start, first, low, high) == {l \in low .. high : FitsAt(k, start, first, l)}

(* The result of a search with the given variables.                        *)
Found(k, start, first, s) ==
    LET fitting == Fitting(k, start, first, s.low, s.high)
    IN  IF fitting = {} THEN s.best ELSE BoundaryWithin(k, start, Max(fitting))

LEMMA FitsBelow ==
  ASSUME setup \in Setups, NEW k \in Payloads, NEW start \in 0 .. Total(k), NEW first \in BOOLEAN,
         NEW limit \in Nat, NEW less \in Nat, less <= limit, FitsAt(k, start, first, limit)
  PROVE  FitsAt(k, start, first, less)
<1> DEFINE b == BoundaryWithin(k, start, limit)
           d == BoundaryWithin(k, start, less)
<1>1. b \in Nat /\ d \in Nat BY BoundaryFacts
<1>2. d <= b BY BoundaryGrows
<1>3. Fits(k, first, FALSE, start, b) BY DEF FitsAt
<1> HIDE DEF b, d
<1>4. Fits(k, first, FALSE, start, d) BY <1>1, <1>2, <1>3, FitsShorter
<1> QED BY <1>4 DEF FitsAt, d

LEMMA FoundUp ==
  ASSUME setup \in Setups, NEW k \in Payloads, NEW start \in 0 .. Total(k), NEW first \in BOOLEAN,
         NEW s \in Search, NEW m \in s.low .. s.high, FitsAt(k, start, first, m)
  PROVE  Found(k, start, first, s)
           = Found(k, start, first, [low |-> m + 1, high |-> s.high, best |-> BoundaryWithin(k, start, m)])
<1> DEFINE F == Fitting(k, start, first, s.low, s.high)
           E == Fitting(k, start, first, m + 1, s.high)
<1>1. s.low \in Nat \ {0} /\ s.high \in Nat /\ m \in Nat BY DEF Search
<1>2. F \subseteq Nat /\ E \subseteq F /\ m \in F /\ \A l \in F : l <= s.high BY <1>1 DEF Fitting
<1>3. \A l \in F : l <= m \/ l \in E BY <1>1 DEF Fitting
<1>4. \A l \in E : m < l BY <1>1 DEF Fitting
<1> HIDE DEF F, E
<1>5. Found(k, start, first, s) = BoundaryWithin(k, start, Max(F)) BY <1>2 DEF Found, F
<1>6. Found(k, start, first, [low |-> m + 1, high |-> s.high, best |-> BoundaryWithin(k, start, m)])
        = IF E = {} THEN BoundaryWithin(k, start, m) ELSE BoundaryWithin(k, start, Max(E))
  BY DEF Found, E
<1>7. CASE E = {}
  <2>1. Max(F) = m BY <1>2, <1>3, <1>7, MaxIs
  <2> QED BY <1>5, <1>6, <1>7, <2>1
<1>8. CASE E # {}
  <2>1. Max(E) \in E /\ \A l \in E : l <= Max(E)
    <3>1. E \subseteq Nat /\ \A l \in E : l <= s.high BY <1>2
    <3> QED BY <1>1, <1>8, <3>1, MaxFacts
  <2>2. \A l \in F : l <= Max(E)
    <3> SUFFICES ASSUME NEW l \in F PROVE l <= Max(E) OBVIOUS
    <3>1. CASE l \in E BY <2>1, <3>1
    <3>2. CASE l <= m
      <4>1. m < Max(E) /\ Max(E) \in Nat /\ l \in Nat BY <1>2, <1>4, <2>1
      <4> QED BY <1>1, <3>2, <4>1
    <3> QED BY <1>3, <3>1, <3>2
  <2>3. Max(F) = Max(E) BY <1>2, <2>1, <2>2, MaxIs
  <2> QED BY <1>5, <1>6, <1>8, <2>3
<1> QED BY <1>7, <1>8

LEMMA FoundDown ==
  ASSUME setup \in Setups, NEW k \in Payloads, NEW start \in 0 .. Total(k), NEW first \in BOOLEAN,
         NEW s \in Search, NEW m \in s.low .. s.high, ~FitsAt(k, start, first, m)
  PROVE  Found(k, start, first, s)
           = Found(k, start, first, [low |-> s.low, high |-> m - 1, best |-> s.best])
<1>1. s.low \in Nat \ {0} /\ s.high \in Nat /\ m \in Nat BY DEF Search
<1>2. \A l \in s.low .. s.high : FitsAt(k, start, first, l) => l < m
  <2> SUFFICES ASSUME NEW l \in s.low .. s.high, FitsAt(k, start, first, l), m <= l PROVE FALSE
    BY <1>1
  <2>1. l \in Nat BY <1>1
  <2> QED BY <1>1, <2>1, FitsBelow
<1>3. Fitting(k, start, first, s.low, s.high) = Fitting(k, start, first, s.low, m - 1)
  BY <1>1, <1>2 DEF Fitting
<1> QED BY <1>3 DEF Found

LEMMA SearchFacts ==
  ASSUME setup \in Setups, NEW k \in Payloads, NEW start \in 0 .. Total(k), NEW first \in BOOLEAN,
         NEW ceiling \in Nat
  PROVE  LargestFittingCount(k, start, ceiling, first)
           = Found(k, start, first, [low |-> 1, high |-> ceiling, best |-> 0])
<1> DEFINE middle(s) == (s.low + s.high) \div 2
           count(s) == BoundaryWithin(k, start, middle(s))
           up(s) == [low |-> middle(s) + 1, high |-> s.high, best |-> count(s)]
           down(s) == [low |-> s.low, high |-> middle(s) - 1, best |-> s.best]
           Step(b, s) == IF s.low > s.high THEN s.best
                         ELSE IF Fits(k, first, FALSE, start, count(s)) THEN b[up(s)] ELSE b[down(s)]
           Def(b) == [s \in Search |-> Step(b, s)]
           bisect == CHOOSE b : b = Def(b)
           G == [s \in Search |-> Found(k, start, first, s)]
           size(s) == IF s.low > s.high THEN 0 ELSE s.high + 1 - s.low
<1>1. LargestFittingCount(k, start, ceiling, first) = bisect[[low |-> 1, high |-> ceiling, best |-> 0]]
  BY DEF LargestFittingCount
<1>2. ASSUME NEW b, b = Def(b) PROVE bisect = Def(bisect)
  <2> HIDE DEF Def
  <2> QED BY <1>2
<1>3. ASSUME NEW s \in Search, ~(s.low > s.high)
      PROVE  /\ middle(s) \in s.low .. s.high
             /\ up(s) \in Search /\ down(s) \in Search
             /\ size(up(s)) < size(s) /\ size(down(s)) < size(s)
  <2>1. s.low \in Nat \ {0} /\ s.high \in Nat /\ s.best \in Nat BY DEF Search
  <2>2. middle(s) \in s.low .. s.high BY <1>3, <2>1
  <2> HIDE DEF middle
  <2>3. count(s) \in Nat
    <3>1. middle(s) \in Nat BY <2>1, <2>2
    <3> QED BY <3>1, BoundaryFacts
  <2> HIDE DEF count
  <2>4. up(s) \in Search /\ down(s) \in Search BY <2>1, <2>2, <2>3 DEF Search
  <2>5. size(up(s)) < size(s) /\ size(down(s)) < size(s) BY <1>3, <2>1, <2>2
  <2> QED BY <2>2, <2>4, <2>5
<1>4. ASSUME NEW s \in Search PROVE G[s] = Step(G, s)
  <2>1. CASE s.low > s.high
    <3>1. Fitting(k, start, first, s.low, s.high) = {} BY <2>1 DEF Fitting, Search
    <3> QED BY <2>1, <3>1 DEF Found
  <2>2. CASE ~(s.low > s.high)
    <3>1. middle(s) \in s.low .. s.high /\ up(s) \in Search /\ down(s) \in Search BY <1>3, <2>2
    <3>2. FitsAt(k, start, first, middle(s)) <=> Fits(k, first, FALSE, start, count(s)) BY DEF FitsAt
    <3> HIDE DEF middle
    <3>3. CASE FitsAt(k, start, first, middle(s))
      <4>1. G[s] = Found(k, start, first, up(s)) BY <3>1, <3>3, FoundUp
      <4>2. G[up(s)] = Found(k, start, first, up(s)) BY <3>1
      <4> HIDE DEF G, up
      <4> QED BY <2>2, <3>2, <3>3, <4>1, <4>2
    <3>4. CASE ~FitsAt(k, start, first, middle(s))
      <4>1. G[s] = Found(k, start, first, down(s)) BY <3>1, <3>4, FoundDown
      <4>2. G[down(s)] = Found(k, start, first, down(s)) BY <3>1
      <4> HIDE DEF G, down
      <4> QED BY <2>2, <3>2, <3>4, <4>1, <4>2
    <3> QED BY <3>3, <3>4
  <2> QED BY <2>1, <2>2
<1>5. G = Def(G)
  <2> HIDE DEF Step
  <2>1. \A s \in Search : G[s] = Step(G, s) BY <1>4
  <2>2. G = [s \in Search |-> G[s]] OBVIOUS
  <2> HIDE DEF G
  <2> QED BY <2>1, <2>2
<1>6. \A s \in Search : bisect[s] = Step(bisect, s)
  <2>1. bisect = Def(bisect) BY <1>2, <1>5
  <2> HIDE DEF bisect, Step
  <2> QED BY <2>1
<1> HIDE DEF bisect
<1>7. \A s \in Search : size(s) \in Nat BY DEF Search
<1>8. \A s \in Search : bisect[s] = G[s]
  <2> DEFINE T == {n \in Nat : \E s \in Search : size(s) = n /\ bisect[s] # G[s]}
  <2>1. SUFFICES ASSUME T # {} PROVE FALSE BY <1>7
  <2>2. PICK n \in T : \A m \in T : n <= m
    <3>1. T \subseteq Nat OBVIOUS
    <3> QED BY <2>1, <3>1, LeastExists
  <2>3. PICK s \in Search : size(s) = n /\ bisect[s] # G[s] OBVIOUS
  <2>4. ASSUME NEW r \in Search, size(r) < size(s) PROVE bisect[r] = G[r]
    <3>1. size(r) \notin T
      <4>1. size(r) \in Nat /\ size(s) \in Nat BY <1>7
      <4> HIDE DEF size, T
      <4> QED BY <2>2, <2>3, <2>4, <4>1
    <3> QED BY <1>7, <3>1
  <2> HIDE DEF T, size
  <2>5. Step(bisect, s) = Step(G, s)
    <3>1. CASE s.low > s.high BY <3>1
    <3>2. CASE ~(s.low > s.high)
      <4>1. up(s) \in Search /\ down(s) \in Search /\ size(up(s)) < size(s) /\ size(down(s)) < size(s)
        BY <1>3, <3>2
      <4>2. bisect[up(s)] = G[up(s)] /\ bisect[down(s)] = G[down(s)] BY <2>4, <4>1
      <4> HIDE DEF up, down, G, count
      <4> QED BY <4>2
    <3> QED BY <3>1, <3>2
  <2> HIDE DEF Step, G
  <2> QED BY <1>4, <1>6, <2>3, <2>5
<1> DEFINE s0 == [low |-> 1, high |-> ceiling, best |-> 0]
<1>9. s0 \in Search BY DEF Search
<1>10. G[s0] = Found(k, start, first, s0) BY <1>9
<1> QED BY <1>1, <1>8, <1>9, <1>10

-----------------------------------------------------------------------------
(* The slice of a middle fragment.                                         *)

LEMMA FoundFacts ==
  ASSUME setup \in Setups, NEW k \in Payloads, NEW start \in 0 .. Total(k), NEW first \in BOOLEAN,
         NEW ceiling \in Nat, ~FitsAt(k, start, first, ceiling)
  PROVE  LET c == LargestFittingCount(k, start, ceiling, first)
         IN  \/ /\ c = 0
                /\ \A l \in 1 .. ceiling : ~FitsAt(k, start, first, l)
             \/ \E m \in 1 .. ceiling - 1 :
                   /\ c = BoundaryWithin(k, start, m)
                   /\ FitsAt(k, start, first, m) /\ ~FitsAt(k, start, first, m + 1)
<1> DEFINE F == Fitting(k, start, first, 1, ceiling)
           c == LargestFittingCount(k, start, ceiling, first)
<1>1. c = IF F = {} THEN 0 ELSE BoundaryWithin(k, start, Max(F))
  BY SearchFacts DEF Found
<1> HIDE DEF c
<1>2. \A l : l \in F <=> l \in 1 .. ceiling /\ FitsAt(k, start, first, l) BY DEF Fitting
<1> HIDE DEF F
<1>3. CASE F = {} BY <1>1, <1>2, <1>3 DEF c
<1>4. CASE F # {}
  <2>1. F \subseteq Nat /\ \A l \in F : l <= ceiling BY <1>2
  <2>2. Max(F) \in F /\ \A l \in F : l <= Max(F) BY <1>4, <2>1, MaxFacts
  <2>3. PICK m : m = Max(F) OBVIOUS
  <2>4. m \in 1 .. ceiling /\ FitsAt(k, start, first, m) BY <1>2, <2>2, <2>3
  <2>5. m # ceiling BY <2>4
  <2>6. m \in 1 .. ceiling - 1 /\ m + 1 \in 1 .. ceiling BY <2>4, <2>5
  <2>7. ~FitsAt(k, start, first, m + 1)
    <3>1. m + 1 \in F => m + 1 <= m BY <2>2, <2>3
    <3>2. m + 1 \notin F BY <2>6, <3>1
    <3> QED BY <1>2, <2>6, <3>2
  <2> QED BY <1>1, <1>4, <2>3, <2>4, <2>6, <2>7 DEF c
<1> QED BY <1>3, <1>4

(* unitsWithinBudget: at least a unit, and no unit more within the budget. *)
LEMMA WithinBudget ==
  ASSUME setup \in Setups, NEW k \in Payloads, NEW start \in 0 .. Total(k), start < Total(k)
  PROVE  LET u == UnitsWithinBudget(k, start)
         IN  /\ u \in Nat \ {0} /\ start + u <= Total(k) /\ Place(k, start + u)
             /\ FirstUnitWidth(k, start) <= u
             /\ \/ start + u = Total(k)
                \/ u + FirstUnitWidth(k, start + u) > Budget
<1> DEFINE b == BoundaryWithin(k, start, Budget)
           w == FirstUnitWidth(k, start)
           u == UnitsWithinBudget(k, start)
<1>1. Total(k) \in Nat /\ start \in Nat /\ Budget \in Nat \ {0} BY SetupFacts
<1>2. /\ b \in Nat /\ b <= Budget /\ start + b <= Total(k) /\ (b = 0 \/ Place(k, start + b))
      /\ \A c \in start .. Total(k) : c <= start + Budget /\ Place(k, c) => c <= start + b
  BY <1>1, BoundaryFacts
<1>3. /\ w \in Nat \ {0} /\ start + w <= Total(k) /\ Place(k, start + w)
      /\ \A c \in start + 1 .. Total(k) : Place(k, c) => start + w <= c
  BY UnitFacts
<1>4. u = IF b = 0 THEN w ELSE b BY DEF UnitsWithinBudget
<1> HIDE DEF b, w, u
<1>5. u \in Nat \ {0} /\ start + u <= Total(k) /\ Place(k, start + u) /\ b <= u BY <1>2, <1>3, <1>4
<1>6. w <= u
  <2>1. start + u \in start + 1 .. Total(k) BY <1>1, <1>5
  <2>2. start + w <= start + u BY <1>3, <1>5, <2>1
  <2> QED BY <1>1, <1>3, <1>5, <2>2
<1>7. ASSUME start + u < Total(k) PROVE u + FirstUnitWidth(k, start + u) > Budget
  <2> DEFINE v == FirstUnitWidth(k, start + u)
  <2>1. start + u \in 0 .. Total(k) BY <1>1, <1>5
  <2>2. v \in Nat \ {0} /\ start + u + v <= Total(k) /\ Place(k, start + u + v)
    BY <1>7, <2>1, UnitFacts
  <2> HIDE DEF v
  <2>3. SUFFICES ASSUME u + v <= Budget PROVE FALSE BY <1>1, <1>5, <2>2 DEF v
  <2>4. start + u + v \in start .. Total(k) /\ start + u + v <= start + Budget BY <1>1, <1>5, <2>2, <2>3
  <2>5. start + u + v <= start + b BY <1>2, <2>2, <2>4
  <2> QED BY <1>1, <1>2, <1>5, <2>2, <2>5
<1>8. start + u = Total(k) \/ u + FirstUnitWidth(k, start + u) > Budget BY <1>1, <1>5, <1>7
<1> QED BY <1>5, <1>6, <1>8 DEF u, w

(* A search that found a slice, found the largest.                         *)
LEMMA LargestFacts ==
  ASSUME setup \in Setups, NEW k \in Payloads, NEW start \in 0 .. Total(k), NEW first \in BOOLEAN,
         NEW u \in Nat \ {0}, start + u <= Total(k), Place(k, start + u),
         FirstUnitWidth(k, start) <= u,
         ~Fits(k, first, FALSE, start, u)
  PROVE  LET c == LargestFittingCount(k, start, u, first)
         IN  /\ c \in Nat /\ start + c < Total(k)
             /\ c > 0 => /\ Place(k, start + c) /\ Fits(k, first, FALSE, start, c)
                         /\ ~Fits(k, first, FALSE, start, c + FirstUnitWidth(k, start + c))
             /\ c = 0 => ~Fits(k, first, FALSE, start, FirstUnitWidth(k, start))
<1> DEFINE c == LargestFittingCount(k, start, u, first)
           w == FirstUnitWidth(k, start)
<1>1. Total(k) \in Nat /\ start \in Nat /\ k \in Nat BY SetupFacts DEF Payloads
<1>2. start < Total(k) BY <1>1
<1>3. /\ w \in Nat \ {0} /\ start + w <= Total(k) /\ Place(k, start + w) BY <1>2, UnitFacts
<1>4. BoundaryWithin(k, start, w) = w BY <1>3, BoundaryAt
<1>5. ~FitsAt(k, start, first, u)
  <2>1. BoundaryWithin(k, start, u) = u BY BoundaryAt
  <2> QED BY <2>1 DEF FitsAt
<1>6. \/ c = 0 /\ \A l \in 1 .. u : ~FitsAt(k, start, first, l)
      \/ \E m \in 1 .. u - 1 : /\ c = BoundaryWithin(k, start, m)
                               /\ FitsAt(k, start, first, m) /\ ~FitsAt(k, start, first, m + 1)
  BY <1>5, FoundFacts
<1> HIDE DEF c
<1>7. ASSUME c = 0, \A l \in 1 .. u : ~FitsAt(k, start, first, l)
      PROVE  start + c < Total(k) /\ ~Fits(k, first, FALSE, start, w)
  <2>1. w \in 1 .. u BY <1>3
  <2>2. start + c < Total(k) BY <1>1, <1>2, <1>7
  <2>3. ~FitsAt(k, start, first, w) BY <1>7, <2>1
  <2>4. ~Fits(k, first, FALSE, start, w) BY <1>4, <2>3 DEF FitsAt
  <2> QED BY <2>2, <2>4
<1>8. ASSUME NEW m \in 1 .. u - 1, c = BoundaryWithin(k, start, m),
             FitsAt(k, start, first, m), ~FitsAt(k, start, first, m + 1)
      PROVE  /\ c \in Nat /\ start + c < Total(k)
             /\ Fits(k, first, FALSE, start, c) /\ (c = 0 \/ Place(k, start + c))
             /\ ~Fits(k, first, FALSE, start, c + FirstUnitWidth(k, start + c))
  <2>1. m \in Nat /\ m + 1 \in Nat /\ m < u OBVIOUS
  <2>2. /\ c \in Nat /\ c <= m /\ (c = 0 \/ Place(k, start + c))
        /\ \A d \in start .. Total(k) : d <= start + m /\ Place(k, d) => d <= start + c
    BY <1>8, <2>1, BoundaryFacts
  <2>3. Fits(k, first, FALSE, start, c) BY <1>8 DEF FitsAt
  <2>4. start + c < Total(k) BY <1>1, <2>1, <2>2
  <2> DEFINE v == FirstUnitWidth(k, start + c)
  <2>5. v \in Nat \ {0} /\ start + c + v <= Total(k) /\ Place(k, start + c + v)
    <3>1. start + c \in 0 .. Total(k) BY <1>1, <2>2, <2>4
    <3> QED BY <2>4, <3>1, UnitFacts
  <2> HIDE DEF v
  <2>6. m < c + v
    <3>1. SUFFICES ASSUME c + v <= m PROVE FALSE BY <2>1, <2>2, <2>5
    <3>2. start + c + v \in start .. Total(k) /\ start + c + v <= start + m
      BY <1>1, <2>1, <2>2, <2>5, <3>1
    <3>3. start + c + v <= start + c BY <2>2, <2>5, <3>2
    <3> QED BY <1>1, <2>2, <2>5, <3>3
  <2>7. ~Fits(k, first, FALSE, start, c + v)
    <3>1. SUFFICES ASSUME Fits(k, first, FALSE, start, c + v) PROVE FALSE OBVIOUS
    <3> DEFINE d == BoundaryWithin(k, start, m + 1)
    <3>2. d \in Nat /\ d <= m + 1 BY <2>1, BoundaryFacts
    <3> HIDE DEF d
    <3>3. c + v \in Nat /\ d <= c + v BY <2>1, <2>2, <2>5, <2>6, <3>2
    <3>4. Fits(k, first, FALSE, start, d) BY <3>1, <3>2, <3>3, FitsShorter
    <3> QED BY <1>8, <3>4 DEF FitsAt, d
  <2> QED BY <2>2, <2>3, <2>4, <2>7 DEF v
<1>9. c \in Nat /\ start + c < Total(k)
  <2>1. CASE c = 0 /\ \A l \in 1 .. u : ~FitsAt(k, start, first, l) BY <1>7, <2>1
  <2>2. CASE \E m \in 1 .. u - 1 : /\ c = BoundaryWithin(k, start, m)
                                   /\ FitsAt(k, start, first, m) /\ ~FitsAt(k, start, first, m + 1)
    BY <1>8, <2>2
  <2> QED BY <1>6, <2>1, <2>2
<1>10. ASSUME c > 0
       PROVE  /\ Place(k, start + c) /\ Fits(k, first, FALSE, start, c)
              /\ ~Fits(k, first, FALSE, start, c + FirstUnitWidth(k, start + c))
  <2>1. CASE c = 0 BY <1>10, <2>1
  <2>2. CASE \E m \in 1 .. u - 1 : /\ c = BoundaryWithin(k, start, m)
                                   /\ FitsAt(k, start, first, m) /\ ~FitsAt(k, start, first, m + 1)
    <3>1. PICK m \in 1 .. u - 1 : /\ c = BoundaryWithin(k, start, m)
                                  /\ FitsAt(k, start, first, m) /\ ~FitsAt(k, start, first, m + 1)
      BY <2>2
    <3>2. /\ Fits(k, first, FALSE, start, c) /\ (c = 0 \/ Place(k, start + c))
          /\ ~Fits(k, first, FALSE, start, c + FirstUnitWidth(k, start + c))
      BY <1>8, <3>1
    <3>3. c # 0 BY <1>10
    <3>4. Place(k, start + c) BY <3>2, <3>3
    <3> QED BY <3>2, <3>4
  <2> QED BY <1>6, <2>1, <2>2
<1>11. ASSUME c = 0 PROVE ~Fits(k, first, FALSE, start, w)
  <2>1. CASE \A l \in 1 .. u : ~FitsAt(k, start, first, l) BY <1>7, <1>11, <2>1
  <2>2. CASE \E m \in 1 .. u - 1 : /\ c = BoundaryWithin(k, start, m)
                                   /\ FitsAt(k, start, first, m) /\ ~FitsAt(k, start, first, m + 1)
    <3>1. ~Fits(k, first, FALSE, start, c + FirstUnitWidth(k, start + c)) BY <1>8, <2>2
    <3>2. start + c = start BY <1>1, <1>11
    <3>3. c + w = w BY <1>3, <1>11
    <3> QED BY <3>1, <3>2, <3>3 DEF w
  <2> QED BY <1>6, <2>1, <2>2
<1> QED BY <1>9, <1>10, <1>11 DEF c, w

LEMMA MiddleFacts ==
  ASSUME setup \in Setups, NEW k \in Payloads, NEW start \in 0 .. Total(k), start < Total(k),
         NEW first \in BOOLEAN, first = (start = 0)
  PROVE  LET c == MiddleCount(k, start, first)
         IN  /\ c \in Nat /\ start + c <= Total(k)
             /\ c > 0 => /\ Place(k, start + c) /\ Fits(k, first, FALSE, start, c)
                         /\ Filled(k, start, c)
             /\ c = 0 => ~Fits(k, first, FALSE, start, FirstUnitWidth(k, start))
<1> DEFINE c == MiddleCount(k, start, first)
           u == UnitsWithinBudget(k, start)
<1>1. /\ u \in Nat \ {0} /\ start + u <= Total(k) /\ Place(k, start + u)
      /\ FirstUnitWidth(k, start) <= u
      /\ start + u = Total(k) \/ u + FirstUnitWidth(k, start + u) > Budget
  BY WithinBudget
<1>2. c = IF Fits(k, first, FALSE, start, u) THEN u ELSE LargestFittingCount(k, start, u, first)
  BY DEF MiddleCount
<1> HIDE DEF c, u
<1>3. ASSUME Fits(k, first, FALSE, start, u)
      PROVE  /\ c \in Nat \ {0} /\ start + c <= Total(k)
             /\ Place(k, start + c) /\ Fits(k, first, FALSE, start, c) /\ Filled(k, start, c)
  BY <1>1, <1>2, <1>3 DEF Filled
<1>4. ASSUME ~Fits(k, first, FALSE, start, u)
      PROVE  /\ c \in Nat /\ start + c <= Total(k)
             /\ c > 0 => /\ Place(k, start + c) /\ Fits(k, first, FALSE, start, c)
                         /\ Filled(k, start, c)
             /\ c = 0 => ~Fits(k, first, FALSE, start, FirstUnitWidth(k, start))
  <2>1. c = LargestFittingCount(k, start, u, first) BY <1>2, <1>4
  <2>2. /\ c \in Nat /\ start + c < Total(k)
        /\ c > 0 => /\ Place(k, start + c) /\ Fits(k, first, FALSE, start, c)
                    /\ ~Fits(k, first, FALSE, start, c + FirstUnitWidth(k, start + c))
        /\ c = 0 => ~Fits(k, first, FALSE, start, FirstUnitWidth(k, start))
    BY <1>1, <1>4, <2>1, LargestFacts
  <2>3. start + c <= Total(k)
    <3>1. Total(k) \in Nat /\ start \in Nat BY SetupFacts
    <3> QED BY <2>2, <3>1
  <2>4. first = (start = 0) OBVIOUS
  <2>5. c > 0 => Filled(k, start, c) BY <2>2, <2>4 DEF Filled
  <2> QED BY <2>2, <2>3, <2>5
<1>5. CASE Fits(k, first, FALSE, start, u)
  <2>1. c > 0 /\ c # 0 BY <1>3, <1>5
  <2> QED BY <1>3, <1>5, <2>1 DEF c
<1>6. CASE ~Fits(k, first, FALSE, start, u) BY <1>4, <1>6 DEF c
<1> QED BY <1>5, <1>6

(* Where a split exists, the greedy one goes on from any place it has come *)
(* to: what is left of the piece it stands in fits as it fitted whole.     *)
LEMMA GreedyGoesOn ==
  ASSUME setup \in Setups, NEW k \in Payloads, NEW start \in 0 .. Total(k),
         NEW first \in BOOLEAN, first = (start = 0), Splittable(k)
  PROVE  \/ Closes(k, start, first)
         \/ start < Total(k) /\ MiddleCount(k, start, first) # 0
<1> DEFINE ends == {c \in 1 .. Total(k) : Place(k, c)}
<1>1. Total(k) \in Nat /\ start \in Nat /\ k \in Nat /\ setup.cap \in Nat BY SetupFacts DEF Payloads
<1>2. PICK cuts \in SUBSET ends :
         \A s \in cuts \union {0} :
            LET later == {c \in cuts : c > s}
                last == later = {}
                end == IF last THEN Total(k) ELSE Min(later)
            IN  Fits(k, s = 0, last, s, end - s)
  BY DEF Splittable, Place
<1>3. \A c \in cuts : c \in 1 .. Total(k) /\ Place(k, c) OBVIOUS
<1> HIDE DEF ends
<1> DEFINE before == {c \in cuts \union {0} : c <= start}
           s == Max(before)
<1>4. s \in before /\ \A c \in before : c <= s
  <2>1. before \subseteq Nat /\ before # {} /\ \A c \in before : c <= start BY <1>1, <1>3
  <2> HIDE DEF before
  <2> QED BY <1>1, <2>1, MaxFacts
<1> HIDE DEF s
<1>5. s \in cuts \union {0} /\ s \in Nat /\ s <= start BY <1>1, <1>3, <1>4
<1>6. \A c \in cuts : c <= s \/ c > start BY <1>1, <1>3, <1>4
<1> DEFINE later == {c \in cuts : c > s}
           last == later = {}
           end == IF last THEN Total(k) ELSE Min(later)
<1>7. Fits(k, s = 0, last, s, end - s) BY <1>2, <1>5
<1>8. first => s = 0
  <2>1. first => start = 0 OBVIOUS
  <2> QED BY <1>5, <2>1
<1>9. CASE last
  <2>1. end = Total(k) /\ Fits(k, s = 0, TRUE, s, Total(k) - s) BY <1>7, <1>9
  <2>2. Total(k) - s \in Nat /\ Total(k) - start \in Nat /\ start + (Total(k) - start) <= s + (Total(k) - s)
    BY <1>1, <1>5
  <2>3. Fits(k, first, TRUE, start, Total(k) - start)
    <3>1. (s = 0) \in BOOLEAN OBVIOUS
    <3> QED BY <1>1, <1>5, <1>8, <2>1, <2>2, <3>1, FitsLess
  <2>4. Total(k) - start <= setup.cap
    <3>1. Cost(k, start, Total(k) - start) \in Nat
          /\ Total(k) - start <= Cost(k, start, Total(k) - start)
      BY <1>1, <2>2, CostFacts
    <3>2. Cost(k, start, Total(k) - start) <= Size(k, first, TRUE, Cost(k, start, Total(k) - start))
          /\ Size(k, first, TRUE, Cost(k, start, Total(k) - start)) \in Nat
      BY <1>1, <3>1, SizeFacts
    <3>3. Size(k, first, TRUE, Cost(k, start, Total(k) - start)) <= setup.cap
      BY <2>3 DEF Fits, FragmentSize
    <3> DEFINE n == Total(k) - start
               z == Size(k, first, TRUE, Cost(k, start, n))
    <3>4. n \in Nat /\ z \in Nat BY <2>2, <3>2
    <3>5. n <= Cost(k, start, n) /\ Cost(k, start, n) <= z /\ z <= setup.cap BY <3>1, <3>2, <3>3
    <3> HIDE DEF n, z
    <3>6. n <= setup.cap BY <1>1, <3>1, <3>4, <3>5 DEF n
    <3> QED BY <3>6 DEF n
  <2> QED BY <2>3, <2>4 DEF Closes
<1>10. CASE ~last
  <2>1. end = Min(later) /\ Fits(k, s = 0, FALSE, s, end - s) BY <1>7, <1>10
  <2>2. end \in later
    <3>1. later \subseteq Nat BY <1>3
    <3> HIDE DEF later
    <3>2. Min(later) \in later BY <1>10, <3>1, MinFacts
    <3> QED BY <1>10, <3>2
  <2>3. end \in cuts /\ end > s BY <2>2
  <2> HIDE DEF end, later
  <2>4. end \in start + 1 .. Total(k) /\ Place(k, end) BY <1>1, <1>3, <1>5, <1>6, <2>3
  <2>5. start < Total(k) BY <1>1, <2>4
  <2> DEFINE w == FirstUnitWidth(k, start)
  <2>6. w \in Nat \ {0} /\ start + w <= end BY <2>4, <2>5, UnitFacts
  <2> HIDE DEF w
  <2>7. end - s \in Nat /\ start + w <= s + (end - s) BY <1>1, <1>5, <2>4, <2>6
  <2>8. Fits(k, first, FALSE, start, w)
    <3>1. (s = 0) \in BOOLEAN OBVIOUS
    <3> QED BY <1>1, <1>5, <1>8, <2>1, <2>6, <2>7, <3>1, FitsLess
  <2>9. MiddleCount(k, start, first) # 0 BY <2>5, <2>8, MiddleFacts DEF w
  <2> QED BY <2>5, <2>9
<1> QED BY <1>9, <1>10

-----------------------------------------------------------------------------
(* The stream does not change.                                             *)

LEMMA SameCost == ASSUME setup' = setup, NEW k, NEW s, NEW n PROVE Cost(k, s, n)' = Cost(k, s, n)
<1>1. Quoted(k, s, n)' = Quoted(k, s, n) BY DEF Quoted, Bytes
<1>2. Cost(k, s, n) = n + Cardinality(Quoted(k, s, n)) BY DEF Cost, Quoted
<1>3. Cost(k, s, n)' = n + Cardinality(Quoted(k, s, n))' BY DEF Cost, Quoted
<1> QED BY <1>1, <1>2, <1>3

LEMMA SameFits ==
  ASSUME setup' = setup, NEW k, NEW a, NEW b, NEW s, NEW n
  PROVE  Fits(k, a, b, s, n)' <=> Fits(k, a, b, s, n)
<1>1. Cost(k, s, n)' = Cost(k, s, n) BY SameCost
<1>2. FragmentSize(k, a, b, s, n)' = FragmentSize(k, a, b, s, n)
  BY <1>1 DEF FragmentSize, Size, IsFirst, IsLast
<1> QED BY <1>2 DEF Fits

LEMMA SameWidth ==
  ASSUME setup' = setup, NEW k, NEW s
  PROVE  FirstUnitWidth(k, s)' = FirstUnitWidth(k, s)
<1> DEFINE S == {w \in 1 .. Total(k) - s : s + w = Total(k) \/ ~IsContinuation(k, s + w + 1)}
<1>1. Total(k)' = Total(k) BY DEF Total, Bytes
<1>2. \A c : IsContinuation(k, c)' <=> IsContinuation(k, c) BY DEF IsContinuation, Bytes
<1>3. S' = S BY <1>1, <1>2
<1>4. FirstUnitWidth(k, s) = IF setup.text THEN Min(S) ELSE 1 BY DEF FirstUnitWidth
<1>5. FirstUnitWidth(k, s)' = IF setup'.text THEN Min(S') ELSE 1 BY DEF FirstUnitWidth
<1> QED BY <1>3, <1>4, <1>5

LEMMA SamePlaces ==
  ASSUME setup' = setup
  PROVE  /\ Payloads' = Payloads /\ Budget' = Budget
         /\ \A k : Total(k)' = Total(k)
         /\ \A k, c : Place(k, c)' <=> Place(k, c)
         /\ TooLarge' <=> TooLarge
<1>1. Payloads' = Payloads /\ Budget' = Budget BY DEF Payloads, Budget, Reservation
<1>2. \A k : Total(k)' = Total(k) BY DEF Total, Bytes
<1>3. \A k, c : Place(k, c)' <=> Place(k, c) BY <1>2 DEF Place, IsContinuation, Bytes
<1>4. TooLarge' <=> TooLarge BY <1>1, <1>2 DEF TooLarge
<1> QED BY <1>1, <1>2, <1>3, <1>4

LEMMA SameFilled ==
  ASSUME setup' = setup, NEW k, NEW s, NEW n
  PROVE  Filled(k, s, n)' <=> Filled(k, s, n)
<1>1. FirstUnitWidth(k, s + n)' = FirstUnitWidth(k, s + n) BY SameWidth
<1>2. PICK w : w = n + FirstUnitWidth(k, s + n) OBVIOUS
<1>3. Fits(k, s = 0, FALSE, s, w)' <=> Fits(k, s = 0, FALSE, s, w) BY SameFits
<1>4. Budget' = Budget /\ Total(k)' = Total(k) BY SamePlaces
<1> QED BY <1>1, <1>2, <1>3, <1>4 DEF Filled

LEMMA SameSound == ASSUME setup' = setup, NEW f PROVE Sound(f)' <=> Sound(f)
<1>1. Filled(f.payload, f.start, f.count)' <=> Filled(f.payload, f.start, f.count) BY SameFilled
<1>2. /\ Payloads' = Payloads /\ Total(f.payload)' = Total(f.payload)
      /\ Place(f.payload, f.start + f.count)' <=> Place(f.payload, f.start + f.count)
  BY SamePlaces
<1> QED BY <1>1, <1>2 DEF Sound

LEMMA SameSplittable == ASSUME setup' = setup, NEW k PROVE Splittable(k)' <=> Splittable(k)
<1> DEFINE later(cuts, s) == {c \in cuts : c > s}
           piece(cuts, s, total) == IF later(cuts, s) = {} THEN total ELSE Min(later(cuts, s))
           ends == {c \in 1 .. Total(k) : ~setup.text \/ c = Total(k) \/ ~IsContinuation(k, c + 1)}
           good(cuts) == \A s \in cuts \union {0} :
                            Fits(k, s = 0, later(cuts, s) = {}, s, piece(cuts, s, Total(k)) - s)
<1>1. Total(k)' = Total(k) /\ ends' = ends BY DEF Total, IsContinuation, Bytes
<1>2. \A cuts : good(cuts)' <=> good(cuts)
  <2> SUFFICES ASSUME NEW cuts PROVE good(cuts)' <=> good(cuts) OBVIOUS
  <2>1. ASSUME NEW s
        PROVE  Fits(k, s = 0, later(cuts, s) = {}, s, piece(cuts, s, Total(k)) - s)'
                 <=> Fits(k, s = 0, later(cuts, s) = {}, s, piece(cuts, s, Total(k)) - s)
    <3>1. PICK n : n = piece(cuts, s, Total(k)) - s OBVIOUS
    <3>2. Fits(k, s = 0, later(cuts, s) = {}, s, n)' <=> Fits(k, s = 0, later(cuts, s) = {}, s, n)
      BY SameFits
    <3> HIDE DEF later, piece
    <3> QED BY <1>1, <3>1, <3>2
  <2> QED BY <2>1
<1>3. Splittable(k) <=> \E cuts \in SUBSET ends : good(cuts) BY DEF Splittable
<1>4. Splittable(k)' <=> \E cuts \in SUBSET ends' : good(cuts)' BY DEF Splittable
<1> HIDE DEF ends, good
<1> QED BY <1>1, <1>2, <1>3, <1>4

-----------------------------------------------------------------------------
(* The wire.                                                               *)

LEMMA WireFacts ==
  ASSUME OnTheWire
  PROVE  /\ IsList(wire) /\ Len(wire) \in Nat
         /\ sender \in {"open", "ended"} => \A i \in 1 .. Len(wire) : IsData(wire[i])
<1>1. IsList(wire) BY DEF OnTheWire
<1>2. Len(wire) \in Nat BY <1>1, ListFacts
<1>3. \A i \in 1 .. Len(wire) : ~IsData(wire[i]) => sender \in {"unencodable", "reset"} BY DEF OnTheWire
<1> QED BY <1>1, <1>2, <1>3

LEMMA SoundFacts ==
  ASSUME setup \in Setups, NEW f, Sound(f)
  PROVE  /\ f.payload \in Nat \ {0} /\ f.payload <= Len(setup.payloads)
         /\ f.start \in Nat /\ f.count \in Nat /\ Total(f.payload) \in Nat
         /\ Ahead(f) \in Nat /\ f.payload <= Ahead(f)
<1>1. Len(setup.payloads) \in Nat /\ \A k \in Payloads : Total(k) \in Nat BY SetupFacts
<1>2. f.payload \in Payloads /\ f.start \in Nat /\ f.count \in Nat BY DEF Sound
<1>3. f.payload \in Nat \ {0} /\ f.payload <= Len(setup.payloads) BY <1>1, <1>2 DEF Payloads
<1>4. Ahead(f) \in Nat /\ f.payload <= Ahead(f) BY <1>3 DEF Ahead
<1> QED BY <1>1, <1>2, <1>3, <1>4

(* The frames after the first of the wire are of its payload or later ones. *)
LEMMA LaterFrames ==
  ASSUME setup \in Setups, Sending, OnTheWire, GoesOn(1)[1] >= 2
  PROVE  /\ \A i \in 1 .. Len(wire) : IsData(wire[i]) => wire[i].payload >= 2
         /\ current >= 2
<1>1. Len(wire) \in Nat /\ current \in Nat BY WireFacts DEF Sending
<1>2. ASSUME NEW i \in 1 .. Len(wire), IsData(wire[i])
      PROVE  /\ wire[i].payload \in Nat /\ Ahead(wire[i]) \in Nat
             /\ wire[i].payload <= Ahead(wire[i]) /\ Ahead(wire[i]) <= current
  <2>1. Sound(wire[i]) /\ Ahead(wire[i]) <= current BY <1>2 DEF OnTheWire
  <2>2. wire[i].payload \in Nat BY <2>1, SetupFacts DEF Sound, Payloads
  <2> QED BY <2>1, <2>2 DEF Ahead
<1>3. CASE 1 <= Len(wire) /\ IsData(wire[1])
  <2>1. wire[1].payload >= 2 BY <1>3 DEF GoesOn
  <2>2. 1 \in 1 .. Len(wire) BY <1>1, <1>3
  <2>3. current >= 2 /\ Ahead(wire[1]) >= 2 BY <1>1, <1>2, <1>3, <2>1, <2>2
  <2>4. ASSUME NEW i \in 1 .. Len(wire), IsData(wire[i]) PROVE wire[i].payload >= 2
    <3>1. CASE i = 1 BY <2>1, <3>1
    <3>2. CASE i # 1
      <4>1. 1 < i BY <1>1, <3>2
      <4>2. Ahead(wire[1]) <= wire[i].payload BY <2>2, <2>4, <4>1 DEF OnTheWire
      <4>3. Ahead(wire[1]) \in Nat /\ wire[i].payload \in Nat BY <1>2, <1>3, <2>2, <2>4
      <4> QED BY <2>3, <4>2, <4>3
    <3> QED BY <3>1, <3>2
  <2> QED BY <2>3, <2>4
<1>4. CASE ~(1 <= Len(wire) /\ IsData(wire[1]))
  <2>1. current >= 2 BY <1>4 DEF GoesOn
  <2>2. ASSUME NEW i \in 1 .. Len(wire), IsData(wire[i]) PROVE FALSE
    <3>1. 1 \in 1 .. Len(wire) /\ ~IsData(wire[1]) BY <1>1, <1>4
    <3>2. Len(wire) = 1 BY <3>1 DEF OnTheWire
    <3>3. i = 1 BY <3>2
    <3> QED BY <2>2, <3>1, <3>3
  <2> QED BY <2>1, <2>2
<1> QED BY <1>3, <1>4

(* A frame of the generator joins the wire.                                *)
LEMMA WireGrows ==
  ASSUME OnTheWire, setup' = setup, setup \in Setups, NEW f, sender \in {"open", "ended"},
         Sound(f), IsData(f),
         f.payload = current, f.start = position, current \in Nat, current' \in Nat,
         wire' = Append(wire, f), After(f) = <<current', position'>>
  PROVE  OnTheWire' /\ GoesOn(1)' = GoesOn(1)
<1>0. PICK w : w = wire' OBVIOUS
<1>1. IsList(wire) /\ Len(wire) \in Nat /\ \A i \in 1 .. Len(wire) : IsData(wire[i]) BY WireFacts
<1>2. /\ IsList(w) /\ Len(w) = Len(wire) + 1
      /\ \A i \in 1 .. Len(wire) : w[i] = wire[i]
      /\ w[Len(wire) + 1] = f
  BY <1>0, <1>1, AppendFacts
<1>3. /\ \A i : GoesOn(i) = IF i <= Len(wire) /\ IsData(wire[i]) THEN <<wire[i].payload, wire[i].start>>
                            ELSE <<current, position>>
      /\ \A i : GoesOn(i)' = IF i <= Len(w) /\ IsData(w[i])
                             THEN <<w[i].payload, w[i].start>> ELSE <<current', position'>>
  BY <1>0 DEF GoesOn, IsData
<1>4. \A i \in 1 .. Len(wire) + 1 : GoesOn(i)' = GoesOn(i)
  <2> SUFFICES ASSUME NEW i \in 1 .. Len(wire) + 1 PROVE GoesOn(i)' = GoesOn(i) OBVIOUS
  <2>1. CASE i \in 1 .. Len(wire)
    <3>1. i <= Len(wire) /\ i <= Len(w) /\ w[i] = wire[i] /\ IsData(wire[i]) BY <1>1, <1>2, <2>1
    <3> QED BY <1>3, <3>1
  <2>2. CASE i = Len(wire) + 1
    <3>1. ~(i <= Len(wire)) /\ i <= Len(w) /\ w[i] = f BY <1>1, <1>2, <2>2
    <3> QED BY <1>3, <3>1
  <2> QED BY <1>1, <2>1, <2>2
<1>5. GoesOn(Len(wire) + 2)' = <<current', position'>>
  <2>1. ~(Len(wire) + 2 <= Len(w)) BY <1>1, <1>2
  <2> QED BY <1>3, <2>1
<1>6. Ahead(f) = current' /\ current <= current'
  <2>1. Ahead(f) = current' BY DEF After
  <2> QED BY <2>1 DEF Ahead
<1>7. ASSUME NEW i \in 1 .. Len(w)
      PROVE  /\ IsData(w[i]) /\ Sound(w[i])' /\ After(w[i]) = GoesOn(i + 1)'
             /\ Ahead(w[i]) <= current'
  <2>1. CASE i \in 1 .. Len(wire)
    <3>1. w[i] = wire[i] /\ IsData(wire[i]) BY <1>1, <1>2, <2>1
    <3>2. Sound(wire[i]) /\ After(wire[i]) = GoesOn(i + 1) /\ Ahead(wire[i]) <= current
      BY <2>1, <3>1 DEF OnTheWire
    <3>3. GoesOn(i + 1)' = GoesOn(i + 1) BY <1>1, <1>4, <2>1
    <3>4. Sound(w[i])'
      <4>1. PICK g : g = wire[i] OBVIOUS
      <4>2. Sound(g)' BY <3>2, <4>1, SameSound
      <4> QED BY <3>1, <4>1, <4>2 DEF Sound
    <3>5. Ahead(wire[i]) \in Nat
      <4>1. Sound(wire[i]) BY <3>2
      <4> QED BY <4>1, SoundFacts
    <3> QED BY <1>6, <3>1, <3>2, <3>3, <3>4, <3>5
  <2>2. CASE i = Len(wire) + 1
    <3>1. w[i] = f BY <1>2, <2>2
    <3>2. i + 1 = Len(wire) + 2 BY <1>1, <2>2
    <3>3. Sound(w[i])'
      <4>2. Sound(f)' BY SameSound
      <4> QED BY <3>1, <4>2 DEF Sound
    <3>4. GoesOn(i + 1)' = <<current', position'>>
      <4>1. ~(i + 1 <= Len(w)) BY <1>1, <1>2, <3>2
      <4> QED BY <1>3, <4>1
    <3>5. Ahead(f) <= current' /\ Ahead(f) = current'
      <4>1. \A a, b \in Nat : a = b => a <= b OBVIOUS
      <4> QED BY <1>6, <4>1
    <3> QED BY <3>1, <3>3, <3>4, <3>5
  <2> QED BY <1>1, <1>2, <2>1, <2>2
<1>8. ASSUME NEW i \in 1 .. Len(w), NEW j \in 1 .. Len(w), i < j
      PROVE  Ahead(w[i]) <= w[j].payload
  <2>1. i \in 1 .. Len(wire) /\ w[i] = wire[i] /\ IsData(wire[i]) BY <1>1, <1>2, <1>8
  <2>2. CASE j \in 1 .. Len(wire)
    <3>1. w[j] = wire[j] /\ IsData(wire[j]) BY <1>1, <1>2, <2>2
    <3> QED BY <1>8, <2>1, <2>2, <3>1 DEF OnTheWire
  <2>3. CASE j = Len(wire) + 1
    <3>1. w[j] = f BY <1>2, <2>3
    <3> QED BY <2>1, <3>1 DEF OnTheWire
  <2> QED BY <1>1, <1>2, <2>2, <2>3
<1>9. OnTheWire'
  <2>1. \A i \in 1 .. Len(w) : IsData(w[i])' BY <1>7 DEF IsData
  <2>2. \A i \in 1 .. Len(w) : After(w[i])' = After(w[i]) /\ Ahead(w[i])' = Ahead(w[i])
    BY DEF After, Ahead
  <2>3. IsList(w)' BY <1>2 DEF IsList
  <2> QED BY <1>0, <1>7, <1>8, <2>1, <2>2, <2>3 DEF OnTheWire
<1> QED BY <1>1, <1>4, <1>9

(* A reset ends the wire, or the sender stops without one.                 *)
LEMMA WireEnds ==
  ASSUME OnTheWire, setup' = setup, setup \in Setups, NEW r, ~IsData(r),
         sender \in {"open", "ended"}, sender' \in {"unencodable", "reset"},
         UNCHANGED <<current, position>>, wire' = wire \/ wire' = Append(wire, r)
  PROVE  OnTheWire' /\ GoesOn(1)' = GoesOn(1)
<1>0. PICK w : w = wire' OBVIOUS
<1>1. IsList(wire) /\ Len(wire) \in Nat /\ \A i \in 1 .. Len(wire) : IsData(wire[i]) BY WireFacts
<1>2. /\ IsList(w) /\ Len(w) \in Len(wire) .. Len(wire) + 1
      /\ \A i \in 1 .. Len(wire) : w[i] = wire[i]
      /\ \A i \in 1 .. Len(w) : i \in 1 .. Len(wire) \/ (i = Len(w) /\ w[i] = r)
  <2>1. CASE w = wire BY <1>1, <2>1
  <2>2. CASE w = Append(wire, r)
    <3>1. /\ IsList(w) /\ Len(w) = Len(wire) + 1
          /\ \A i \in 1 .. Len(wire) : w[i] = wire[i]
          /\ w[Len(wire) + 1] = r
      BY <1>0, <1>1, <2>2, AppendFacts
    <3> QED BY <1>1, <3>1
  <2> QED BY <1>0, <2>1, <2>2
<1>3. /\ \A i : GoesOn(i) = IF i <= Len(wire) /\ IsData(wire[i]) THEN <<wire[i].payload, wire[i].start>>
                            ELSE <<current, position>>
      /\ \A i : GoesOn(i)' = IF i <= Len(w) /\ IsData(w[i])
                             THEN <<w[i].payload, w[i].start>> ELSE <<current, position>>
  BY <1>0 DEF GoesOn, IsData
<1>4. \A i \in 1 .. Len(wire) + 1 : GoesOn(i)' = GoesOn(i)
  <2> SUFFICES ASSUME NEW i \in 1 .. Len(wire) + 1 PROVE GoesOn(i)' = GoesOn(i) OBVIOUS
  <2>1. CASE i \in 1 .. Len(wire)
    <3>1. i <= Len(wire) /\ i <= Len(w) /\ w[i] = wire[i] /\ IsData(wire[i]) BY <1>1, <1>2, <2>1
    <3> QED BY <1>3, <3>1
  <2>2. CASE i = Len(wire) + 1
    <3>1. ~(i <= Len(wire)) BY <1>1, <2>2
    <3>2. i <= Len(w) => ~IsData(w[i]) BY <1>1, <1>2, <2>2
    <3> QED BY <1>3, <3>1, <3>2
  <2> QED BY <1>1, <2>1, <2>2
<1>5. ASSUME NEW i \in 1 .. Len(w), IsData(w[i])
      PROVE  /\ i \in 1 .. Len(wire) /\ w[i] = wire[i]
             /\ Sound(w[i])' /\ After(w[i]) = GoesOn(i + 1)'
             /\ Ahead(w[i]) <= current'
  <2>1. i \in 1 .. Len(wire) /\ w[i] = wire[i] BY <1>2, <1>5
  <2>2. Sound(wire[i]) /\ After(wire[i]) = GoesOn(i + 1) /\ Ahead(wire[i]) <= current
    BY <1>1, <2>1 DEF OnTheWire
  <2>3. GoesOn(i + 1)' = GoesOn(i + 1) BY <1>1, <1>4, <2>1
  <2>4. Sound(w[i])'
    <3>1. PICK g : g = wire[i] OBVIOUS
    <3>2. Sound(g)' BY <2>2, <3>1, SameSound
    <3> QED BY <2>1, <3>1, <3>2 DEF Sound
  <2> QED BY <2>1, <2>2, <2>3, <2>4
<1>6. ASSUME NEW i \in 1 .. Len(w), ~IsData(w[i]) PROVE i = Len(w)
  BY <1>1, <1>2, <1>6
<1>7. ASSUME NEW i \in 1 .. Len(w), NEW j \in 1 .. Len(w), i < j, IsData(w[j])
      PROVE  Ahead(w[i]) <= w[j].payload
  <2>1. j \in 1 .. Len(wire) /\ w[j] = wire[j] BY <1>5, <1>7
  <2>2. i \in 1 .. Len(wire) /\ w[i] = wire[i] BY <1>1, <1>2, <1>7, <2>1
  <2> QED BY <1>7, <2>1, <2>2 DEF OnTheWire
<1>8. OnTheWire'
  <2>1. \A i \in 1 .. Len(w) : IsData(w[i])' <=> IsData(w[i]) BY DEF IsData
  <2>2. \A i \in 1 .. Len(w) : After(w[i])' = After(w[i]) /\ Ahead(w[i])' = Ahead(w[i])
    BY DEF After, Ahead
  <2>3. IsList(w)' BY <1>2 DEF IsList
  <2> QED BY <1>0, <1>5, <1>6, <1>7, <2>1, <2>2, <2>3 DEF OnTheWire
<1> QED BY <1>1, <1>4, <1>8

(* The receiver takes the head of the wire.                                *)
LEMMA WireShrinks ==
  ASSUME OnTheWire, setup' = setup, setup \in Setups, wire # <<>>, wire' = Tail(wire),
         UNCHANGED <<current, position, sender>>
  PROVE  /\ OnTheWire' /\ Head(wire) = wire[1] /\ 1 \in 1 .. Len(wire)
         /\ IsData(wire[1]) => GoesOn(1)' = After(wire[1]) /\ Sound(wire[1])
         /\ ~IsData(wire[1]) => wire' = <<>> /\ sender # "open"
         /\ \A i \in 1 .. Len(wire') : i + 1 \in 1 .. Len(wire) /\ wire'[i] = wire[i + 1]
<1>0. PICK w : w = wire' OBVIOUS
<1>1. IsList(wire) BY WireFacts
<1>2. /\ IsList(w) /\ Len(w) = Len(wire) - 1 /\ Len(wire) \in Nat \ {0}
      /\ \A i \in 1 .. Len(wire) - 1 : w[i] = wire[i + 1]
      /\ Head(wire) = wire[1]
  BY <1>0, <1>1, TailFacts
<1>3. /\ \A i : GoesOn(i) = IF i <= Len(wire) /\ IsData(wire[i]) THEN <<wire[i].payload, wire[i].start>>
                            ELSE <<current, position>>
      /\ \A i : GoesOn(i)' = IF i <= Len(w) /\ IsData(w[i])
                             THEN <<w[i].payload, w[i].start>> ELSE <<current, position>>
  BY <1>0 DEF GoesOn, IsData
<1>4. \A i \in 1 .. Len(wire) : GoesOn(i)' = GoesOn(i + 1)
  <2> SUFFICES ASSUME NEW i \in 1 .. Len(wire) PROVE GoesOn(i)' = GoesOn(i + 1) OBVIOUS
  <2>1. CASE i \in 1 .. Len(wire) - 1
    <3>1. i <= Len(w) /\ i + 1 <= Len(wire) /\ w[i] = wire[i + 1] BY <1>2, <2>1
    <3> QED BY <1>3, <3>1
  <2>2. CASE i = Len(wire)
    <3>1. ~(i <= Len(w)) /\ ~(i + 1 <= Len(wire)) BY <1>2, <2>2
    <3> QED BY <1>3, <3>1
  <2> QED BY <1>2, <2>1, <2>2
<1>5. ASSUME NEW i \in 1 .. Len(w), IsData(w[i])
      PROVE  /\ Sound(w[i])' /\ After(w[i]) = GoesOn(i + 1)'
             /\ Ahead(w[i]) <= current'
  <2>1. i \in 1 .. Len(wire) - 1 /\ i + 1 \in 1 .. Len(wire) /\ w[i] = wire[i + 1] BY <1>2
  <2>2. /\ Sound(wire[i + 1]) /\ After(wire[i + 1]) = GoesOn(i + 1 + 1)
        /\ Ahead(wire[i + 1]) <= current
    BY <1>5, <2>1 DEF OnTheWire
  <2>3. GoesOn(i + 1)' = GoesOn(i + 1 + 1) BY <1>4, <2>1
  <2>4. Sound(w[i])'
    <3>1. PICK g : g = wire[i + 1] OBVIOUS
    <3>2. Sound(g)' BY <2>2, <3>1, SameSound
    <3> QED BY <2>1, <3>1, <3>2 DEF Sound
  <2> QED BY <2>1, <2>2, <2>3, <2>4
<1>6. ASSUME NEW i \in 1 .. Len(w), ~IsData(w[i])
      PROVE  i = Len(w) /\ sender \in {"unencodable", "reset"}
  <2>1. i + 1 \in 1 .. Len(wire) /\ w[i] = wire[i + 1] BY <1>2
  <2>2. i + 1 = Len(wire) /\ sender \in {"unencodable", "reset"} BY <1>6, <2>1 DEF OnTheWire
  <2> QED BY <1>2, <2>2
<1>7. ASSUME NEW i \in 1 .. Len(w), NEW j \in 1 .. Len(w), i < j, IsData(w[j])
      PROVE  Ahead(w[i]) <= w[j].payload
  <2>1. /\ i + 1 \in 1 .. Len(wire) /\ w[i] = wire[i + 1]
        /\ j + 1 \in 1 .. Len(wire) /\ w[j] = wire[j + 1] /\ i + 1 < j + 1
    BY <1>2, <1>7
  <2> QED BY <1>7, <2>1 DEF OnTheWire
<1>8. OnTheWire'
  <2>1. \A i \in 1 .. Len(w) : IsData(w[i])' <=> IsData(w[i]) BY DEF IsData
  <2>2. \A i \in 1 .. Len(w) : After(w[i])' = After(w[i]) /\ Ahead(w[i])' = Ahead(w[i])
    BY DEF After, Ahead
  <2>3. IsList(w)' BY <1>2 DEF IsList
  <2> QED BY <1>0, <1>5, <1>6, <1>7, <2>1, <2>2, <2>3 DEF OnTheWire
<1>9. 1 \in 1 .. Len(wire) BY <1>2
<1>10. IsData(wire[1]) => GoesOn(1)' = After(wire[1]) /\ Sound(wire[1]) BY <1>4, <1>9 DEF OnTheWire
<1>11. ASSUME ~IsData(wire[1]) PROVE w = <<>> /\ sender # "open"
  <2>1. 1 = Len(wire) /\ sender \in {"unencodable", "reset"} BY <1>9, <1>11 DEF OnTheWire
  <2>2. IsList(w) /\ Len(w) = Len(wire) - 1 BY <1>2
  <2>3. Len(w) = 0 BY <2>1, <2>2
  <2>4. w = <<>> BY <2>2, <2>3, ListFacts
  <2> QED BY <2>1, <2>2
<1> QED BY <1>2, <1>8, <1>9, <1>0, <1>2, <1>10, <1>11

-----------------------------------------------------------------------------
(* The initial states.                                                     *)

LEMMA EmptyList == IsList(<<>>)
<1>1. <<>> \in Seq({}) OBVIOUS
<1> QED BY <1>1, SeqIsList

LEMMA FragInit == ASSUME Init PROVE FragInv
<1>1. /\ setup \in Setups /\ current = 1 /\ position = 0 /\ emitted = 0
      /\ sender = "open" /\ wire = <<>> /\ back = <<>>
      /\ stream = IF setup.opens THEN "none" ELSE "open"
      /\ opening = FALSE /\ parts = <<>> /\ received = <<>>
  BY DEF Init
<1>2. /\ Len(setup.payloads) \in Nat /\ \A k \in Payloads : Total(k) \in Nat
      /\ setup.opens \in BOOLEAN /\ setup.maxPayload \in Nat
  BY <1>1, SetupFacts
<1>3. Sending
  <2>1. 1 <= Len(setup.payloads) => Total(1) \in Nat BY <1>2 DEF Payloads
  <2>2. 1 <= Len(setup.payloads) + 1 BY <1>2
  <2>3. IF current <= Len(setup.payloads) THEN position <= Total(current) ELSE position = 0
    BY <1>1, <2>1
  <2> QED BY <1>1, <2>2, <2>3 DEF Sending
<1>4. OnTheWire
  <2>1. IsList(wire) /\ Len(wire) = 0 BY <1>1, EmptyList
  <2> QED BY <2>1 DEF OnTheWire
<1>5. Receiving
  <2>1. GoesOn(1) = <<1, 0>> BY <1>1 DEF GoesOn
  <2>2. IsList(received) /\ IsList(parts) BY <1>1, EmptyList
  <2>3. Len(received) = 0 /\ Len(parts) = 0 BY <1>1
  <2>4. GoesOn(1) = <<Len(received) + 1, Len(parts)>> BY <2>1, <2>3
  <2>5. parts = [i \in 1 .. Len(parts) |-> <<Len(received) + 1, i>>] BY <1>1
  <2>6. stream \in {"none", "open"} /\ (stream = "none" <=> setup.opens) BY <1>1, <1>2
  <2>7. /\ stream \in {"none", "open", "ended", "closed", "connection failed"}
        /\ stream # "ended" /\ opening \in BOOLEAN /\ ~opening
    BY <1>1, <2>6
  <2>8. \A k \in 1 .. Len(received) : FALSE BY <2>3
  <2>9. Len(received) <= Len(setup.payloads) /\ Len(parts) <= setup.maxPayload BY <1>2, <2>3
  <2>10. setup.opens /\ stream \in {"open", "ended"} /\ ~opening => FALSE BY <2>6
  <2>11. received = <<>> /\ parts = <<>> BY <1>1
  <2> QED BY <2>2, <2>4, <2>5, <2>6, <2>7, <2>8, <2>9, <2>10, <2>11 DEF Receiving
<1>6. Blaming
  <2>1. IsList(back) /\ Len(back) = 0 BY <1>1, EmptyList
  <2>2. stream \in {"none", "open"} BY <1>1
  <2>3. stream # "connection failed" /\ stream # "closed" BY <2>2
  <2>4. \A i \in 1 .. Len(back) : FALSE BY <2>1
  <2> QED BY <2>1, <2>3, <2>4 DEF Blaming
<1>7. RefusesOnlyHopeless BY <1>1 DEF RefusesOnlyHopeless
<1> QED BY <1>1, <1>3, <1>4, <1>5, <1>6, <1>7 DEF FragInv

-----------------------------------------------------------------------------
(* The sender's steps leave the receiver alone.                            *)

LEMMA ReceivingKept ==
  ASSUME Receiving, setup' = setup, Live => GoesOn(1)' = GoesOn(1),
         UNCHANGED <<stream, opening, parts, received>>
  PROVE  Receiving'
<1>1. \A k : Total(k)' = Total(k) BY SamePlaces
<1>2. \A k : [i \in 1 .. Total(k) |-> <<k, i>>]' = [i \in 1 .. Total(k) |-> <<k, i>>] BY <1>1
<1>3. IsList(received)' /\ IsList(parts)'
  <2>1. IsList(received) /\ IsList(parts) BY DEF Receiving
  <2> QED BY <2>1 DEF IsList
<1>4. Live' <=> Live BY DEF Live
<1> QED BY <1>2, <1>3, <1>4 DEF Receiving

LEMMA BlamingKept ==
  ASSUME Blaming, setup' = setup, UNCHANGED <<back, stream>>,
         stream = "closed" /\ ~TooLarge =>
            /\ \A i \in 1 .. Len(wire') : wire'[i].type # "open"
            /\ ~(setup.opens /\ current' = 1 /\ sender' = "open")
  PROVE  Blaming'
<1>1. TooLarge' <=> TooLarge BY SamePlaces
<1>2. IsList(back)' BY DEF Blaming, IsList
<1> QED BY <1>1, <1>2 DEF Blaming

LEMMA SendKeeps ==
  ASSUME FragInv, setup' = setup, sender = "open", NEW f, Sound(f), IsData(f),
         f.payload = current, f.start = position, wire' = Append(wire, f),
         After(f) = <<current', position'>>, Sending',
         sender' \in {"open", "ended"},
         UNCHANGED <<back, stream, opening, parts, received>>
  PROVE  FragInv'
<1>1. /\ setup \in Setups /\ Sending /\ OnTheWire /\ Receiving /\ Blaming BY DEF FragInv
<1>2. current \in Nat /\ current' \in Nat BY <1>1 DEF Sending
<1>3. OnTheWire' /\ GoesOn(1)' = GoesOn(1) BY <1>1, <1>2, WireGrows
<1>4. Receiving' BY <1>1, <1>3, ReceivingKept
<1>5. Blaming'
  <2>1. ASSUME stream = "closed", ~TooLarge
        PROVE  /\ \A i \in 1 .. Len(wire') : wire'[i].type # "open"
               /\ ~(setup.opens /\ current' = 1 /\ sender' = "open")
    <3>1. /\ \A i \in 1 .. Len(wire) : wire[i].type # "open"
          /\ ~(setup.opens /\ current = 1)
      BY <1>1, <2>1 DEF Blaming
    <3>2. f.type = "data" BY <3>1 DEF Sound
    <3>3. IsList(wire) /\ Len(wire) \in Nat BY <1>1, WireFacts
    <3>4. /\ Len(wire') = Len(wire) + 1
          /\ \A i \in 1 .. Len(wire) : wire'[i] = wire[i]
          /\ wire'[Len(wire) + 1] = f
      BY <3>3, AppendFacts
    <3>5. \A i \in 1 .. Len(wire') : wire'[i].type # "open"
      <4>1. \A i \in 1 .. Len(wire') : i \in 1 .. Len(wire) \/ i = Len(wire) + 1 BY <3>3, <3>4
      <4> QED BY <3>1, <3>2, <3>4, <4>1
    <3>6. current' = 1 => current = 1
      <4>1. current' = Ahead(f) BY DEF After
      <4>2. f.payload \in Nat \ {0} /\ f.payload <= Ahead(f) /\ Ahead(f) \in Nat BY <1>1, SoundFacts
      <4> QED BY <4>1, <4>2
    <3> QED BY <3>1, <3>5, <3>6
  <2> QED BY <1>1, <2>1, BlamingKept
<1>6. RefusesOnlyHopeless' BY DEF RefusesOnlyHopeless
<1> QED BY <1>1, <1>3, <1>4, <1>5, <1>6 DEF FragInv

LEMMA ResetKeeps ==
  ASSUME FragInv, setup' = setup, sender \in {"open", "ended"}, NEW r, r.type = "reset",
         wire' = wire \/ wire' = Append(wire, r),
         sender' \in {"unencodable", "reset"}, sender' = "unencodable" => ~Splittable(current),
         UNCHANGED <<current, position, emitted, back, stream, opening, parts, received>>
  PROVE  FragInv'
<1>1. /\ setup \in Setups /\ Sending /\ OnTheWire /\ Receiving /\ Blaming BY DEF FragInv
<1>2. OnTheWire' /\ GoesOn(1)' = GoesOn(1)
  <2>1. ~IsData(r) BY DEF IsData
  <2> QED BY <1>1, <2>1, WireEnds
<1>3. Receiving' BY <1>1, <1>2, ReceivingKept
<1>4. Sending'
  <2>1. Total(current)' = Total(current)
    <3>1. PICK k : k = current OBVIOUS
    <3>2. Total(k)' = Total(k) BY SamePlaces
    <3> QED BY <3>1, <3>2 DEF Total, Bytes
  <2> QED BY <1>1, <2>1 DEF Sending
<1>5. Blaming'
  <2>1. ASSUME stream = "closed", ~TooLarge
        PROVE  \A i \in 1 .. Len(wire') : wire'[i].type # "open"
    <3>1. \A i \in 1 .. Len(wire) : wire[i].type # "open" BY <1>1, <2>1 DEF Blaming
    <3>2. CASE wire' = wire BY <3>1, <3>2
    <3>3. CASE wire' = Append(wire, r)
      <4>1. IsList(wire) /\ Len(wire) \in Nat BY <1>1, WireFacts
      <4>2. /\ Len(wire') = Len(wire) + 1
            /\ \A i \in 1 .. Len(wire) : wire'[i] = wire[i]
            /\ wire'[Len(wire) + 1] = r
        BY <3>3, <4>1, AppendFacts
      <4>3. \A i \in 1 .. Len(wire') : i \in 1 .. Len(wire) \/ i = Len(wire) + 1 BY <4>1, <4>2
      <4> QED BY <3>1, <4>2, <4>3
    <3> QED BY <3>2, <3>3
  <2> QED BY <1>1, <2>1, BlamingKept
<1>6. RefusesOnlyHopeless'
  <2>1. PICK k : k = current OBVIOUS
  <2>2. Splittable(k)' <=> Splittable(k) BY SameSplittable
  <2>3. sender' = "unencodable" => ~Splittable(k)' BY <2>1, <2>2
  <2> QED BY <2>1, <2>3 DEF RefusesOnlyHopeless
<1> QED BY <1>1, <1>2, <1>3, <1>4, <1>5, <1>6 DEF FragInv

-----------------------------------------------------------------------------
(* The frames the generator yields.                                        *)

LEMMA WholeIsSound ==
  ASSUME setup \in Setups, NEW k \in Payloads, WholeSize(k) <= setup.cap,
         NEW f, f = Frame(k, TRUE, TRUE, TRUE, 0, Total(k))
  PROVE  /\ Sound(f) /\ IsData(f) /\ f.payload = k /\ f.start = 0
         /\ After(f) = <<k + 1, 0>>
<1>1. /\ f.type = IF k = 1 /\ setup.opens THEN "open" ELSE "data"
      /\ f.whole = TRUE /\ f.payload = k /\ f.start = 0 /\ f.count = Total(k)
      /\ f.headers = (k = 1 /\ TRUE /\ setup.headers > 0)
      /\ f.end = (k = Len(setup.payloads) /\ TRUE) /\ f.more = FALSE
      /\ f.size = WholeSize(k)
  BY DEF Frame, IsFirst, IsLast
<1>2. /\ k \in Nat /\ Total(k) \in Nat /\ 0 + Total(k) = Total(k) /\ 0 + Total(k) <= Total(k)
      /\ Place(k, 0 + Total(k))
  <2>1. k \in Nat /\ Total(k) \in Nat BY SetupFacts DEF Payloads
  <2>2. 0 + Total(k) = Total(k) /\ 0 + Total(k) <= Total(k) BY <2>1
  <2> QED BY <2>1, <2>2 DEF Place
<1>3. f.size \in Nat /\ f.size <= setup.cap
  <2>1. WholeSize(k) \in Nat BY <1>2, SizeFacts DEF WholeSize
  <2> QED BY <1>1, <2>1
<1>4. f.headers \in BOOLEAN /\ f.end \in BOOLEAN /\ f.more \in BOOLEAN /\ f.whole \in BOOLEAN
  BY <1>1
<1>5. f.end = (f.payload = Len(setup.payloads) /\ ~f.more) BY <1>1
<1>6. f.headers => f.payload = 1 /\ f.start = 0 BY <1>1
<1>7. f.whole => f.start = 0 /\ ~f.more BY <1>1
<1>8. IF f.more THEN f.count > 0 /\ Filled(f.payload, f.start, f.count)
      ELSE f.start + f.count = Total(f.payload)
  BY <1>1, <1>2
<1>9. Sound(f)
  <2>1. f.start + f.count <= Total(f.payload) /\ Place(f.payload, f.start + f.count) BY <1>1, <1>2
  <2>2. f.payload \in Payloads /\ f.start \in Nat /\ f.count \in Nat
    <3>1. f.payload \in Payloads BY <1>1
    <3>2. f.start \in Nat
      <4>1. f.start = 0 BY <1>1
      <4>2. \A x : x = 0 => x \in Nat OBVIOUS
      <4> QED BY <4>1, <4>2
    <3>3. f.count \in Nat BY <1>1, <1>2
    <3> QED BY <3>1, <3>2, <3>3
  <2>3. f.type = IF f.payload = 1 /\ setup.opens THEN "open" ELSE "data" BY <1>1
  <2> QED BY <1>3, <1>4, <1>5, <1>6, <1>7, <1>8, <2>1, <2>2, <2>3 DEF Sound
<1>10. IsData(f) BY <1>1 DEF IsData
<1>11. After(f) = <<k + 1, 0>> BY <1>1 DEF After, Ahead
<1> QED BY <1>1, <1>9, <1>10, <1>11

LEMMA FragmentSizeFacts ==
  ASSUME setup \in Setups, NEW k \in Nat, NEW first \in BOOLEAN, NEW last \in BOOLEAN,
         NEW start \in Nat, NEW count \in Nat, Fits(k, first, last, start, count)
  PROVE  /\ FragmentSize(k, first, last, start, count) \in Nat
         /\ FragmentSize(k, first, last, start, count) <= setup.cap
<1>1. Cost(k, start, count) \in Nat BY CostFacts
<1> QED BY <1>1, SizeFacts DEF FragmentSize, Fits

LEMMA ClosingIsSound ==
  ASSUME setup \in Setups, NEW k \in Payloads, NEW start \in Nat,
         NEW count \in Nat, start + count = Total(k),
         Fits(k, start = 0, TRUE, start, count),
         NEW f, f = Frame(k, FALSE, start = 0, TRUE, start, count)
  PROVE  Sound(f)
<1>1. /\ f.type = IF k = 1 /\ setup.opens THEN "open" ELSE "data"
      /\ f.whole = FALSE /\ f.payload = k /\ f.start = start /\ f.count = count
      /\ f.headers = (k = 1 /\ start = 0 /\ setup.headers > 0)
      /\ f.end = (k = Len(setup.payloads) /\ TRUE) /\ f.more = FALSE
      /\ f.size = FragmentSize(k, start = 0, TRUE, start, count)
  BY DEF Frame, IsFirst, IsLast
<1>2. k \in Nat /\ Total(k) \in Nat /\ start + count <= Total(k) /\ Place(k, start + count)
  <2>1. k \in Nat /\ Total(k) \in Nat BY SetupFacts DEF Payloads
  <2> QED BY <2>1 DEF Place
<1>3. f.size \in Nat /\ f.size <= setup.cap 
  <2>1. /\ FragmentSize(k, start = 0, TRUE, start, count) \in Nat
        /\ FragmentSize(k, start = 0, TRUE, start, count) <= setup.cap
    <3>1. TRUE \in BOOLEAN /\ FALSE \in BOOLEAN /\ (start = 0) \in BOOLEAN OBVIOUS
    <3> QED BY <1>2, <3>1, FragmentSizeFacts
  <2> QED BY <1>1, <2>1
<1>4. f.headers \in BOOLEAN /\ f.end \in BOOLEAN /\ f.more \in BOOLEAN /\ f.whole \in BOOLEAN
  BY <1>1
<1>5. f.end = (f.payload = Len(setup.payloads) /\ ~f.more) BY <1>1
<1>6. f.headers => f.payload = 1 /\ f.start = 0 BY <1>1
<1>7. f.whole => f.start = 0 /\ ~f.more BY <1>1
<1>8. IF f.more THEN f.count > 0 /\ Filled(f.payload, f.start, f.count)
      ELSE f.start + f.count = Total(f.payload)
  BY <1>1
<1>9. Sound(f)
  <2>1. f.start + f.count <= Total(f.payload) /\ Place(f.payload, f.start + f.count) BY <1>1, <1>2
  <2>2. f.payload \in Payloads /\ f.start \in Nat /\ f.count \in Nat BY <1>1, <1>2
  <2>3. f.type = IF f.payload = 1 /\ setup.opens THEN "open" ELSE "data" BY <1>1
  <2> QED BY <1>3, <1>4, <1>5, <1>6, <1>7, <1>8, <2>1, <2>2, <2>3 DEF Sound
<1> QED BY <1>9

LEMMA MiddleIsSound ==
  ASSUME setup \in Setups, NEW k \in Payloads, NEW start \in Nat,
         NEW count \in Nat, start + count <= Total(k), count > 0, Place(k, start + count),
         Filled(k, start, count),
         Fits(k, start = 0, FALSE, start, count),
         NEW f, f = Frame(k, FALSE, start = 0, FALSE, start, count)
  PROVE  Sound(f)
<1>1. /\ f.type = IF k = 1 /\ setup.opens THEN "open" ELSE "data"
      /\ f.whole = FALSE /\ f.payload = k /\ f.start = start /\ f.count = count
      /\ f.headers = (k = 1 /\ start = 0 /\ setup.headers > 0)
      /\ f.end = (k = Len(setup.payloads) /\ FALSE) /\ f.more = TRUE
      /\ f.size = FragmentSize(k, start = 0, FALSE, start, count)
  BY DEF Frame, IsFirst, IsLast
<1>2. k \in Nat /\ Total(k) \in Nat /\ start + count <= Total(k) /\ Place(k, start + count)
  <2>1. k \in Nat /\ Total(k) \in Nat BY SetupFacts DEF Payloads
  <2> QED BY <2>1
<1>3. f.size \in Nat /\ f.size <= setup.cap 
  <2>1. /\ FragmentSize(k, start = 0, FALSE, start, count) \in Nat
        /\ FragmentSize(k, start = 0, FALSE, start, count) <= setup.cap
    <3>1. TRUE \in BOOLEAN /\ FALSE \in BOOLEAN /\ (start = 0) \in BOOLEAN OBVIOUS
    <3> QED BY <1>2, <3>1, FragmentSizeFacts
  <2> QED BY <1>1, <2>1
<1>4. f.headers \in BOOLEAN /\ f.end \in BOOLEAN /\ f.more \in BOOLEAN /\ f.whole \in BOOLEAN
  BY <1>1
<1>5. f.end = (f.payload = Len(setup.payloads) /\ ~f.more) BY <1>1
<1>6. f.headers => f.payload = 1 /\ f.start = 0 BY <1>1
<1>7. f.whole => f.start = 0 /\ ~f.more BY <1>1
<1>8. IF f.more THEN f.count > 0 /\ Filled(f.payload, f.start, f.count)
      ELSE f.start + f.count = Total(f.payload)
  BY <1>1
<1>9. Sound(f)
  <2>1. f.start + f.count <= Total(f.payload) /\ Place(f.payload, f.start + f.count) BY <1>1, <1>2
  <2>2. f.payload \in Payloads /\ f.start \in Nat /\ f.count \in Nat BY <1>1, <1>2
  <2>3. f.type = IF f.payload = 1 /\ setup.opens THEN "open" ELSE "data" BY <1>1
  <2> QED BY <1>3, <1>4, <1>5, <1>6, <1>7, <1>8, <2>1, <2>2, <2>3 DEF Sound
<1>10. IsData(f) BY <1>1 DEF IsData
<1>11. f.more /\ f.count = count BY <1>1
<1> QED BY <1>1, <1>9, <1>10, <1>11

(* The first fragment of a payload is the one that starts it.              *)
LEMMA FirstStarts ==
  ASSUME setup \in Setups, Sending, current <= Len(setup.payloads)
  PROVE  /\ current \in Payloads /\ current \in Nat /\ Total(current) \in Nat
         /\ position \in 0 .. Total(current)
         /\ (emitted = 0) = (position = 0) /\ (emitted = 0) \in BOOLEAN
<1>1. current \in Nat \ {0} /\ position \in Nat /\ emitted \in Nat /\ Len(setup.payloads) \in Nat
  BY SetupFacts DEF Sending
<1>2. current \in Payloads BY <1>1 DEF Payloads
<1>3. Total(current) \in Nat BY <1>2, SetupFacts
<1>4. position <= Total(current) /\ emitted <= position /\ (emitted = 0 => position = 0)
  BY DEF Sending
<1> QED BY <1>1, <1>2, <1>3, <1>4

LEMMA FinishKeeps ==
  ASSUME setup \in Setups, setup' = setup, Sending, current <= Len(setup.payloads), Finish
  PROVE  Sending' /\ sender' \in {"open", "ended"} /\ <<current', position'>> = <<current + 1, 0>>
<1>1. current \in Nat \ {0} /\ Len(setup.payloads) \in Nat BY SetupFacts DEF Sending
<1>2. current' = current + 1 /\ position' = 0 /\ emitted' = 0 /\ sender' \in {"open", "ended"}
  BY DEF Finish
<1>3. current' <= Len(setup.payloads) => Total(current)' \in Nat
  <2>1. PICK k : k = current' OBVIOUS
  <2>2. k <= Len(setup.payloads) => k \in Payloads BY <1>1, <1>2, <2>1 DEF Payloads
  <2>3. k <= Len(setup.payloads) => Total(k) \in Nat BY <2>2, SetupFacts
  <2>4. Total(k)' = Total(k) BY SamePlaces
  <2> QED BY <2>1, <2>3, <2>4 DEF Total, Bytes
<1>4. current' <= Len(setup'.payloads) + 1 BY <1>1, <1>2
<1>5. IF current' <= Len(setup'.payloads) THEN position' <= Total(current)' ELSE position' = 0
  BY <1>2, <1>3
<1> QED BY <1>1, <1>2, <1>4, <1>5 DEF Sending

LEMMA SendWholeKeeps == ASSUME FragInv, SendWhole PROVE FragInv'
<1> DEFINE f == Frame(current, TRUE, TRUE, TRUE, 0, Total(current))
<1>1. setup \in Setups /\ Sending BY DEF FragInv
<1>2. /\ setup' = setup /\ sender = "open" /\ emitted = 0 /\ current <= Len(setup.payloads)
      /\ WholeSize(current) <= setup.cap /\ wire' = Append(wire, f) /\ Finish
      /\ UNCHANGED <<back, stream, opening, parts, received>>
  BY DEF SendWhole, Pulls, Yield
<1>3. current \in Payloads /\ Total(current) \in Nat /\ position = 0
  BY <1>1, <1>2, FirstStarts
<1>4. Sending' /\ sender' \in {"open", "ended"} /\ <<current', position'>> = <<current + 1, 0>>
  BY <1>1, <1>2, FinishKeeps
<1>5. Sound(f) /\ IsData(f) /\ f.payload = current /\ f.start = 0 /\ After(f) = <<current + 1, 0>>
  <2>1. PICK g : g = Frame(current, TRUE, TRUE, TRUE, 0, Total(current)) OBVIOUS
  <2>2. Sound(g) /\ IsData(g) /\ g.payload = current /\ g.start = 0
        /\ After(g) = <<current + 1, 0>>
    BY <1>1, <1>2, <1>3, <2>1, WholeIsSound
  <2> QED BY <2>1, <2>2
<1> HIDE DEF f
<1> QED BY <1>2, <1>3, <1>4, <1>5, SendKeeps

LEMMA SendClosingKeeps == ASSUME FragInv, SendClosing PROVE FragInv'
<1> DEFINE first == emitted = 0
           count == Total(current) - position
           f == Frame(current, FALSE, first, TRUE, position, count)
<1>1. setup \in Setups /\ Sending BY DEF FragInv
<1>2. /\ setup' = setup /\ sender = "open" /\ current <= Len(setup.payloads)
      /\ Fits(current, first, TRUE, position, count) /\ wire' = Append(wire, f) /\ Finish
      /\ UNCHANGED <<back, stream, opening, parts, received>>
  BY DEF SendClosing, Splits, Pulls, Yield, Closes
<1>3. /\ current \in Payloads /\ Total(current) \in Nat /\ position \in 0 .. Total(current)
      /\ first \in BOOLEAN /\ first = (position = 0)
  BY <1>1, <1>2, FirstStarts
<1>4. Sending' /\ sender' \in {"open", "ended"} /\ <<current', position'>> = <<current + 1, 0>>
  BY <1>1, <1>2, FinishKeeps
<1>5. count \in Nat /\ position \in Nat /\ position + count = Total(current)
  BY <1>3
<1> HIDE DEF first, count
<1>6. Sound(f) /\ IsData(f) /\ f.payload = current /\ f.start = position
      /\ After(f) = <<current + 1, 0>>
  <2>1. PICK g : g = Frame(current, FALSE, first, TRUE, position, count) OBVIOUS
  <2>2. Sound(g) /\ IsData(g) /\ g.payload = current /\ g.start = position
        /\ After(g) = <<current + 1, 0>>
    <3>1. /\ setup \in Setups /\ current \in Payloads /\ first \in BOOLEAN /\ position \in Nat
          /\ count \in Nat /\ first = (position = 0) /\ position + count = Total(current)
          /\ Fits(current, first, TRUE, position, count)
      BY <1>1, <1>2, <1>3, <1>5
    <3>2. PICK n, p, k : n = count /\ p = position /\ k = current OBVIOUS
    <3>3. /\ setup \in Setups /\ k \in Payloads /\ n \in Nat /\ p \in Nat
          /\ p + n = Total(k)
          /\ Fits(k, p = 0, TRUE, p, n) /\ g = Frame(k, FALSE, p = 0, TRUE, p, n)
      BY <2>1, <3>1, <3>2
    <3>4. Sound(g) /\ IsData(g) /\ g.payload = k /\ g.start = p
          /\ ~g.more
      <4>1. Sound(g) BY <3>3, ClosingIsSound
      <4>2. g.type \in {"open", "data"} /\ g.payload = k /\ g.start = p /\ ~g.more
        BY <3>3 DEF Frame
      <4> QED BY <4>1, <4>2 DEF IsData
    <3>5. After(g) = <<k + 1, 0>> BY <3>4 DEF After, Ahead
    <3> QED BY <3>2, <3>4, <3>5
  <2> QED BY <2>1, <2>2
<1> HIDE DEF f
<1> QED BY <1>2, <1>4, <1>6, SendKeeps

LEMMA SendMiddleKeeps == ASSUME FragInv, SendMiddle PROVE FragInv'
<1> DEFINE first == emitted = 0
           count == MiddleCount(current, position, first)
           f == Frame(current, FALSE, first, FALSE, position, count)
<1>1. setup \in Setups /\ Sending BY DEF FragInv
<1>2. /\ setup' = setup /\ sender = "open" /\ current <= Len(setup.payloads)
      /\ position < Total(current) /\ count > 0 /\ wire' = Append(wire, f)
      /\ position' = position + count /\ emitted' = emitted + 1
      /\ UNCHANGED <<current, sender, back, stream, opening, parts, received>>
  BY DEF SendMiddle, Splits, Pulls, Yield, Advance
<1>3. /\ current \in Payloads /\ Total(current) \in Nat /\ position \in 0 .. Total(current)
      /\ first \in BOOLEAN /\ first = (position = 0) /\ (first => position = 0)
      /\ position \in Nat
  BY <1>1, <1>2, FirstStarts
<1>4. /\ count \in Nat /\ position + count <= Total(current)
      /\ Place(current, position + count) /\ Fits(current, first, FALSE, position, count)
      /\ Filled(current, position, count)
  BY <1>1, <1>2, <1>3, MiddleFacts
<1> HIDE DEF first, count
<1>5. Sending'
  <2>1. Total(current)' = Total(current) BY <1>2 DEF Total, Bytes
  <2>2. /\ current \in Nat \ {0} /\ position \in Nat /\ emitted \in Nat /\ emitted <= position
        /\ current <= Len(setup.payloads) + 1
    BY <1>1 DEF Sending
  <2>3. position' \in Nat /\ emitted' \in Nat /\ emitted' # 0 /\ emitted' <= position'
        /\ position' <= Total(current)
    BY <1>2, <1>4, <2>2
  <2> QED BY <1>2, <2>1, <2>2, <2>3 DEF Sending
<1>6. Sound(f) /\ IsData(f) /\ f.payload = current /\ f.start = position
      /\ After(f) = <<current, position + count>>
  <2>1. PICK g : g = Frame(current, FALSE, first, FALSE, position, count) OBVIOUS
  <2>2. Sound(g) /\ IsData(g) /\ g.payload = current /\ g.start = position
        /\ After(g) = <<current, position + count>>
    <3>1. /\ setup \in Setups /\ current \in Payloads /\ first \in BOOLEAN /\ position \in Nat
          /\ count \in Nat /\ first = (position = 0) /\ count > 0
          /\ position + count <= Total(current) /\ Place(current, position + count)
          /\ Filled(current, position, count) /\ Fits(current, first, FALSE, position, count)
      BY <1>1, <1>2, <1>3, <1>4
    <3>2. PICK n, p, k : n = count /\ p = position /\ k = current OBVIOUS
    <3>3. /\ setup \in Setups /\ k \in Payloads /\ n \in Nat /\ p \in Nat
          /\ n > 0 /\ p + n <= Total(k)
          /\ Place(k, p + n) /\ Filled(k, p, n)
          /\ Fits(k, p = 0, FALSE, p, n) /\ g = Frame(k, FALSE, p = 0, FALSE, p, n)
      BY <2>1, <3>1, <3>2
    <3>4. Sound(g) /\ IsData(g) /\ g.payload = k /\ g.start = p
          /\ g.more /\ g.count = n
      <4>1. Sound(g) BY <3>3, MiddleIsSound
      <4>2. g.type \in {"open", "data"} /\ g.payload = k /\ g.start = p /\ g.more /\ g.count = n
        BY <3>3 DEF Frame
      <4> QED BY <4>1, <4>2 DEF IsData
    <3>5. After(g) = <<k, p + n>> BY <3>4 DEF After, Ahead
    <3> QED BY <3>2, <3>4, <3>5
  <2> QED BY <2>1, <2>2
<1> HIDE DEF f
<1> QED BY <1>2, <1>5, <1>6, SendKeeps

LEMMA RefusesKeeps == ASSUME FragInv, Refuses PROVE FragInv'
<1> DEFINE first == emitted = 0
<1>1. setup \in Setups /\ Sending BY DEF FragInv
<1>2. /\ setup' = setup /\ sender = "open" /\ current <= Len(setup.payloads)
      /\ ~Closes(current, position, first) /\ sender' = "unencodable"
      /\ position < Total(current) => MiddleCount(current, position, first) = 0
      /\ wire' = wire \/ wire' = Append(wire, [type |-> "reset", size |-> 0])
      /\ UNCHANGED <<current, position, emitted, back, stream, opening, parts, received>>
  BY DEF Refuses, Splits, Pulls, AtFloor
<1>3. /\ current \in Payloads /\ position \in 0 .. Total(current)
      /\ first \in BOOLEAN /\ first = (position = 0)
  BY <1>1, <1>2, FirstStarts
<1> HIDE DEF first
<1>4. ~Splittable(current) BY <1>1, <1>2, <1>3, GreedyGoesOn
<1>5. PICK r : r = [type |-> "reset", size |-> 0] OBVIOUS
<1>6. r.type = "reset" BY <1>5
<1> QED BY <1>2, <1>4, <1>5, <1>6, ResetKeeps

LEMMA SenderResetsKeeps == ASSUME FragInv, SenderResets PROVE FragInv'
<1>1. /\ setup' = setup /\ sender \in {"open", "ended"} /\ sender' = "reset"
      /\ wire' = Append(wire, [type |-> "reset", size |-> 0])
      /\ UNCHANGED <<current, position, emitted, back, stream, opening, parts, received>>
  BY DEF SenderResets
<1>2. PICK r : r = [type |-> "reset", size |-> 0] OBVIOUS
<1>3. r.type = "reset" BY <1>2
<1> QED BY <1>1, <1>2, <1>3, ResetKeeps

-----------------------------------------------------------------------------
(* The receiver's steps.                                                   *)

LEMMA EmptyFacts == ASSUME NEW w, w = <<>> PROVE Len(w) = 0 /\ (\A i \in 1 .. Len(w) : FALSE)
OBVIOUS

LEMMA AppendCases ==
  ASSUME NEW s, IsList(s), NEW e
  PROVE  \A i \in 1 .. Len(Append(s, e)) : i \in 1 .. Len(s) \/ i = Len(s) + 1
<1>1. Len(s) \in Nat BY ListFacts
<1>2. Len(Append(s, e)) = Len(s) + 1 BY AppendFacts
<1> QED BY <1>1, <1>2

LEMMA SendingKept ==
  ASSUME Sending, setup' = setup, UNCHANGED <<current, position, emitted>>,
         sender' \in {"open", "ended", "unencodable", "reset"}
  PROVE  Sending'
<1>1. Total(current)' = Total(current) BY DEF Total, Bytes
<1> QED BY <1>1 DEF Sending

LEMMA HopelessKept ==
  ASSUME RefusesOnlyHopeless, setup' = setup, current' = current,
         sender' = "unencodable" => sender = "unencodable"
  PROVE  RefusesOnlyHopeless'
<1>1. PICK k : k = current OBVIOUS
<1>2. Splittable(k)' <=> Splittable(k) BY SameSplittable
<1>3. sender' = "unencodable" => ~Splittable(k)' BY <1>1, <1>2 DEF RefusesOnlyHopeless
<1> QED BY <1>1, <1>3 DEF RefusesOnlyHopeless

LEMMA WireKept ==
  ASSUME OnTheWire, setup' = setup, UNCHANGED <<wire, current, position, sender>>
  PROVE  OnTheWire' /\ GoesOn(1)' = GoesOn(1)
<1>1. \A f : Sound(f)' <=> Sound(f) BY SameSound
<1>2. \A i : GoesOn(i)' = GoesOn(i) BY DEF GoesOn
<1>3. IsList(wire)'
  <2>1. IsList(wire) BY DEF OnTheWire
  <2> QED BY <2>1 DEF IsList
<1>4. \A i \in 1 .. Len(wire) :
         IsData(wire[i]) => /\ Sound(wire[i])' /\ After(wire[i]) = GoesOn(i + 1)'
                            /\ Ahead(wire[i]) <= current
  BY <1>1, <1>2 DEF OnTheWire
<1>5. OnTheWire'
  <2>1. \A f : (IsData(f)' <=> IsData(f)) /\ After(f)' = After(f) /\ Ahead(f)' = Ahead(f)
    BY DEF IsData, After, Ahead
  <2> QED BY <1>3, <1>4, <2>1 DEF OnTheWire
<1> QED BY <1>2, <1>5

LEMMA SenderIsResetKeeps == ASSUME FragInv, SenderIsReset PROVE FragInv'
<1>1. /\ setup \in Setups /\ Sending /\ OnTheWire /\ Receiving /\ Blaming
      /\ RefusesOnlyHopeless
  BY DEF FragInv
<1>2. /\ setup' = setup /\ back # <<>> /\ back' = Tail(back)
      /\ sender' = IF sender \in {"open", "ended"} THEN "reset" ELSE sender
      /\ UNCHANGED <<current, position, emitted, wire, stream, opening, parts, received>>
  BY DEF SenderIsReset
<1>3. /\ sender' \in {"unencodable", "reset"} /\ sender' \in {"open", "ended", "unencodable", "reset"}
      /\ (sender' = "unencodable" => sender = "unencodable")
      /\ (sender \notin {"open", "ended"} => sender' = sender)
  BY <1>1, <1>2 DEF Sending
<1>4. OnTheWire' /\ GoesOn(1)' = GoesOn(1)
  <2>1. CASE sender \in {"open", "ended"}
    <3>1. PICK r : r = [type |-> "reset"] OBVIOUS
    <3>2. ~IsData(r) BY <3>1 DEF IsData
    <3> QED BY <1>1, <1>2, <1>3, <2>1, <3>2, WireEnds
  <2>2. CASE sender \notin {"open", "ended"} BY <1>1, <1>2, <1>3, <2>2, WireKept
  <2> QED BY <2>1, <2>2
<1>5. Receiving' BY <1>1, <1>2, <1>4, ReceivingKept
<1>6. Sending' BY <1>1, <1>2, <1>3, SendingKept
<1>7. RefusesOnlyHopeless' BY <1>1, <1>2, <1>3, HopelessKept
<1>8. Blaming'
  <2>1. TooLarge' <=> TooLarge BY <1>2, SamePlaces
  <2>2. IsList(back) BY <1>1 DEF Blaming
  <2>3. /\ IsList(back') /\ Len(back') = Len(back) - 1 /\ Len(back) \in Nat \ {0}
        /\ \A i \in 1 .. Len(back) - 1 : back'[i] = back[i + 1]
    BY <1>2, <2>2, TailFacts
  <2>4. IsList(back)' BY <2>3 DEF IsList
  <2>5. \A i \in 1 .. Len(back') :
           back'[i] = "CANCELLED" \/ (back'[i] = "PAYLOAD_TOO_LARGE" /\ TooLarge)
    <3> SUFFICES ASSUME NEW i \in 1 .. Len(back')
                 PROVE  back'[i] = "CANCELLED" \/ (back'[i] = "PAYLOAD_TOO_LARGE" /\ TooLarge)
      OBVIOUS
    <3>1. i + 1 \in 1 .. Len(back) /\ back'[i] = back[i + 1] BY <2>3
    <3> QED BY <1>1, <3>1 DEF Blaming
  <2>6. stream = "closed" /\ ~TooLarge =>
           /\ \A i \in 1 .. Len(wire) : wire[i].type # "open"
           /\ ~(setup.opens /\ current = 1 /\ sender' = "open")
    BY <1>1, <1>3 DEF Blaming
  <2>7. stream = "connection failed" => setup.opens /\ TooLarge BY <1>1 DEF Blaming
  <2> QED BY <1>2, <2>1, <2>4, <2>5, <2>6, <2>7 DEF Blaming
<1> QED BY <1>1, <1>2, <1>4, <1>5, <1>6, <1>7, <1>8 DEF FragInv

(* What the receiver finds at the head of the wire.                        *)
LEMMA HeadFacts ==
  ASSUME setup \in Setups, setup' = setup, OnTheWire, Receiving, wire # <<>>, wire' = Tail(wire),
         UNCHANGED <<current, position, sender>>, NEW f, f = Head(wire)
  PROVE  /\ f = wire[1] /\ 1 \in 1 .. Len(wire) /\ OnTheWire'
         /\ IsData(f) => Sound(f) /\ GoesOn(1)' = After(f)
         /\ IsData(f) /\ Live => f.payload = Len(received) + 1 /\ f.start = Len(parts)
         /\ ~IsData(f) => GoesOn(1)' = GoesOn(1) /\ wire' = <<>> /\ sender # "open"
<1>1. /\ OnTheWire' /\ Head(wire) = wire[1] /\ 1 \in 1 .. Len(wire)
      /\ IsData(wire[1]) => GoesOn(1)' = After(wire[1]) /\ Sound(wire[1])
      /\ ~IsData(wire[1]) => wire' = <<>> /\ sender # "open"
  BY WireShrinks
<1>2. Len(wire) \in Nat BY WireFacts
<1>3. 1 <= Len(wire) BY <1>1, <1>2
<1>4. GoesOn(1) = IF IsData(f) THEN <<f.payload, f.start>> ELSE <<current, position>>
  BY <1>1, <1>3 DEF GoesOn
<1>5. Live => GoesOn(1) = <<Len(received) + 1, Len(parts)>> BY DEF Receiving
<1>6. ASSUME ~IsData(f) PROVE GoesOn(1)' = GoesOn(1)
  <2>1. wire' = <<>> BY <1>1, <1>6
  <2>2. ~(1 <= Len(wire'))
    <3>1. \A w : w = <<>> => ~(1 <= Len(w)) OBVIOUS
    <3> QED BY <2>1, <3>1
  <2>3. GoesOn(1)' = <<current, position>> BY <2>2 DEF GoesOn
  <2> QED BY <1>4, <1>6, <2>3
<1>7. IsData(f) /\ Live => f.payload = Len(received) + 1 /\ f.start = Len(parts)
  <2>1. \A a, b, c, d : <<a, b>> = <<c, d>> => a = c /\ b = d OBVIOUS
  <2> QED BY <1>4, <1>5, <2>1
<1> QED BY <1>1, <1>6, <1>7

LEMMA ReceiveKeeps ==
  ASSUME FragInv, setup' = setup, wire # <<>>, wire' = Tail(wire),
         UNCHANGED <<current, position, emitted, sender>>, Receiving',
         back' = back \/ (back' = Append(back, "PAYLOAD_TOO_LARGE") /\ TooLarge),
         stream' = "connection failed" /\ stream # "connection failed" => setup.opens /\ TooLarge,
         stream' = "closed" /\ stream # "closed" => TooLarge \/ ~IsData(Head(wire))
  PROVE  FragInv'
<1>1. /\ setup \in Setups /\ Sending /\ OnTheWire /\ Receiving /\ Blaming
      /\ RefusesOnlyHopeless
  BY DEF FragInv
<1>2. /\ OnTheWire' /\ Head(wire) = wire[1] /\ 1 \in 1 .. Len(wire)
      /\ ~IsData(wire[1]) => wire' = <<>> /\ sender # "open"
      /\ \A i \in 1 .. Len(wire') : i + 1 \in 1 .. Len(wire) /\ wire'[i] = wire[i + 1]
  BY <1>1, WireShrinks
<1>3. Sending' BY <1>1, SendingKept DEF Sending
<1>4. RefusesOnlyHopeless' BY <1>1, HopelessKept
<1>5. Blaming'
  <2>1. TooLarge' <=> TooLarge BY SamePlaces
  <2>2. IsList(back) BY <1>1 DEF Blaming
  <2>3. /\ IsList(back')
        /\ \A i \in 1 .. Len(back') :
              back'[i] = "CANCELLED" \/ (back'[i] = "PAYLOAD_TOO_LARGE" /\ TooLarge)
    <3>1. CASE back' = back BY <1>1, <3>1 DEF Blaming
    <3>2. CASE back' = Append(back, "PAYLOAD_TOO_LARGE") /\ TooLarge
      <4>1. PICK b : b = Append(back, "PAYLOAD_TOO_LARGE") OBVIOUS
      <4>2. Len(back) \in Nat BY <2>2, ListFacts
      <4>3. /\ IsList(b) /\ Len(b) = Len(back) + 1
            /\ \A i \in 1 .. Len(back) : b[i] = back[i]
            /\ b[Len(back) + 1] = "PAYLOAD_TOO_LARGE"
        BY <2>2, <4>1, AppendFacts
      <4>4. \A i \in 1 .. Len(b) : i \in 1 .. Len(back) \/ i = Len(back) + 1 BY <2>2, <4>1, AppendCases
      <4>5. \A i \in 1 .. Len(back) :
               back[i] = "CANCELLED" \/ (back[i] = "PAYLOAD_TOO_LARGE" /\ TooLarge)
        BY <1>1 DEF Blaming
      <4>6. \A i \in 1 .. Len(b) : b[i] = "CANCELLED" \/ (b[i] = "PAYLOAD_TOO_LARGE" /\ TooLarge)
        BY <3>2, <4>3, <4>4, <4>5
      <4>7. back' = b BY <3>2, <4>1
      <4> QED BY <4>3, <4>6, <4>7
    <3> QED BY <3>1, <3>2
  <2>4. IsList(back)' BY <2>3 DEF IsList
  <2>5. ASSUME stream' = "closed", ~TooLarge
        PROVE  /\ \A i \in 1 .. Len(wire') : wire'[i].type # "open"
               /\ ~(setup.opens /\ current = 1 /\ sender = "open")
    <3>1. CASE stream = "closed"
      <4>1. /\ \A i \in 1 .. Len(wire) : wire[i].type # "open"
            /\ ~(setup.opens /\ current = 1 /\ sender = "open")
        BY <1>1, <2>5, <3>1 DEF Blaming
      <4> QED BY <1>2, <4>1
    <3>2. CASE stream # "closed"
      <4>1. wire' = <<>> /\ sender # "open" BY <1>2, <2>5, <3>2
      <4>3. \A i \in 1 .. Len(wire') : FALSE BY <4>1, EmptyFacts
      <4> QED BY <4>1, <4>3
    <3> QED BY <3>1, <3>2
  <2>6. stream' = "connection failed" => setup.opens /\ TooLarge BY <1>1 DEF Blaming
  <2> QED BY <2>1, <2>3, <2>4, <2>5, <2>6 DEF Blaming
<1> QED BY <1>1, <1>2, <1>3, <1>4, <1>5 DEF FragInv

-----------------------------------------------------------------------------
(* What the receiver's stream becomes.                                     *)

LEMMA ZeroLeast == ASSUME NEW n, n = 0, NEW m, m \in Nat PROVE n <= m
OBVIOUS

LEMMA FunIsList ==
  ASSUME NEW n \in Nat, NEW s, s = [i \in 1 .. n |-> s[i]]
  PROVE  IsList(s) /\ Len(s) = n
<1>1. DOMAIN s = 1 .. n OBVIOUS
<1> DEFINE T == {s[i] : i \in DOMAIN s}
<1>2. \A i \in 1 .. n : s[i] \in T BY <1>1
<1> HIDE DEF T
<1>3. s \in [1 .. n -> T] BY <1>2
<1>4. s \in Seq(T) BY <1>3
<1>5. IsList(s) BY <1>4 DEF IsList, T
<1>6. DOMAIN s = 1 .. Len(s) /\ Len(s) \in Nat BY <1>5, ListFacts
<1> QED BY <1>1, <1>5, <1>6

LEMMA EmptyPlaces ==
  ASSUME NEW w, w = <<>>, NEW r
  PROVE  IsList(w) /\ Len(w) = 0 /\ w = [i \in 1 .. Len(w) |-> <<r, i>>]
<1>1. Len(w) = 0 /\ w = [i \in 1 .. 0 |-> <<r, i>>] OBVIOUS
<1> QED BY <1>1, EmptyList

(* The bytes of a fragment follow those the assembler holds.               *)
Run(s, k, from) == \A i \in 1 .. Len(s) : s[i] = <<k, from + i>>

LEMMA PlacesJoin ==
  ASSUME NEW q, IsList(q), NEW p, IsList(p), NEW r, Run(q, r, 0), Run(p, r, Len(q))
  PROVE  IsList(q \o p) /\ Len(q \o p) = Len(q) + Len(p) /\ Run(q \o p, r, 0)
<1>1. Len(q) \in Nat /\ Len(p) \in Nat BY ListFacts
<1>2. /\ IsList(q \o p) /\ Len(q \o p) = Len(q) + Len(p)
      /\ \A i \in 1 .. Len(q) + Len(p) : (q \o p)[i] = IF i <= Len(q) THEN q[i] ELSE p[i - Len(q)]
  BY ConcatFacts
<1>3. ASSUME NEW i \in 1 .. Len(q) + Len(p) PROVE (q \o p)[i] = <<r, 0 + i>>
  <2>1. CASE i <= Len(q)
    <3>1. i \in 1 .. Len(q) BY <1>1, <2>1
    <3>2. q[i] = <<r, 0 + i>> BY <3>1 DEF Run
    <3> QED BY <1>2, <2>1, <3>2
  <2>2. CASE ~(i <= Len(q))
    <3>1. i - Len(q) \in 1 .. Len(p) /\ Len(q) + (i - Len(q)) = i BY <1>1, <2>2
    <3>2. p[i - Len(q)] = <<r, Len(q) + (i - Len(q))>> BY <3>1 DEF Run
    <3> QED BY <1>2, <2>2, <3>1, <3>2
  <2> QED BY <2>1, <2>2
<1>4. PICK z : z = q \o p OBVIOUS
<1>5. Run(z, r, 0) BY <1>2, <1>3, <1>4 DEF Run
<1> QED BY <1>2, <1>4, <1>5

LEMMA JoinFacts ==
  ASSUME setup \in Setups, Receiving, NEW f, Sound(f),
         f.payload = Len(received) + 1, f.start = Len(parts)
  PROVE  LET n == Len(parts) + f.count
         IN  /\ IsList(parts \o Places(f)) /\ n \in Nat
             /\ Len(parts \o Places(f)) = n
             /\ parts \o Places(f) = [i \in 1 .. n |-> <<Len(received) + 1, i>>]
<1>1. f.count \in Nat /\ f.start \in Nat BY SoundFacts
<1>2. IsList(parts) /\ parts = [i \in 1 .. Len(parts) |-> <<Len(received) + 1, i>>]
  BY DEF Receiving
<1>3. Len(parts) \in Nat BY <1>2, ListFacts
<1>4. PICK p : p = Places(f) OBVIOUS
<1>5. p = [i \in 1 .. f.count |-> <<Len(received) + 1, Len(parts) + i>>] BY <1>4 DEF Places
<1>6. p = [i \in 1 .. f.count |-> p[i]] BY <1>5
<1>7. IsList(p) /\ Len(p) = f.count BY <1>1, <1>6, FunIsList
<1>8. PICK q, r : q = parts /\ r = Len(received) + 1 OBVIOUS
<1>9. IsList(q) /\ Run(q, r, 0) /\ Run(p, r, Len(q))
  <2>1. \A i \in 1 .. Len(q) : q[i] = <<r, i>> /\ 0 + i = i BY <1>2, <1>8
  <2>2. \A i \in 1 .. Len(p) : p[i] = <<r, Len(q) + i>> BY <1>5, <1>7, <1>8
  <2> QED BY <1>2, <1>8, <2>1, <2>2 DEF Run
<1>10. PICK z : z = q \o p OBVIOUS
<1>11. /\ IsList(z) /\ Len(z) = Len(q) + Len(p) /\ \A i \in 1 .. Len(z) : z[i] = <<r, i>>
  <2>1. IsList(z) /\ Len(z) = Len(q) + Len(p) /\ Run(z, r, 0) BY <1>7, <1>9, <1>10, PlacesJoin
  <2>2. \A i \in 1 .. Len(z) : 0 + i = i OBVIOUS
  <2> QED BY <2>1, <2>2 DEF Run
<1>12. z = [i \in 1 .. Len(z) |-> z[i]] BY <1>11, ListFacts
<1>13. z = [i \in 1 .. Len(z) |-> <<r, i>>] BY <1>11, <1>12
<1>14. Len(z) = Len(parts) + f.count /\ Len(z) \in Nat BY <1>1, <1>3, <1>7, <1>8, <1>11
<1>15. z = parts \o Places(f) BY <1>4, <1>8, <1>10
<1> QED BY <1>8, <1>11, <1>13, <1>14, <1>15

(* Receiving, of a stream, an opening, parts, payloads received, and a     *)
(* place where the wire goes on.                                           *)
ReceivingAt(s, o, p, d, at) ==
    /\ s \in {"none", "open", "ended", "closed", "connection failed"}
    /\ o \in BOOLEAN
    /\ IsList(d) /\ IsList(p)
    /\ Len(d) <= Len(setup.payloads)
    /\ \A k \in 1 .. Len(d) : d[k] = [i \in 1 .. Total(k) |-> <<k, i>>]
    /\ p = [i \in 1 .. Len(p) |-> <<Len(d) + 1, i>>]
    /\ Len(p) <= setup.maxPayload
    /\ s \in {"none", "open", "ended"} => at = <<Len(d) + 1, Len(p)>>
    /\ s = "none" => setup.opens /\ d = <<>>
    /\ o => setup.opens /\ s = "open" /\ d = <<>>
    /\ setup.opens /\ s \in {"open", "ended"} /\ ~o => d # <<>>
    /\ s = "ended" => Len(d) = Len(setup.payloads)
    /\ s # "open" => p = <<>>

LEMMA ReceivingNow == Receiving <=> ReceivingAt(stream, opening, parts, received, GoesOn(1))
BY DEF Receiving, ReceivingAt, Live

LEMMA ReceivingNext ==
  ASSUME setup' = setup, NEW s, NEW o, NEW p, NEW d, NEW at, ReceivingAt(s, o, p, d, at),
         stream' = s, opening' = o, parts' = p, received' = d, GoesOn(1)' = at
  PROVE  Receiving'
<1>1. \A k : Total(k)' = Total(k) BY SamePlaces
<1>2. \A k : [i \in 1 .. Total(k) |-> <<k, i>>]' = [i \in 1 .. Total(k) |-> <<k, i>>] BY <1>1
<1>3. IsList(received)' /\ IsList(parts)'
  <2>1. IsList(d) /\ IsList(p) BY DEF ReceivingAt
  <2> QED BY <2>1 DEF IsList
<1>4. Live' <=> s \in {"none", "open", "ended"} BY DEF Live
<1> QED BY <1>2, <1>3, <1>4 DEF Receiving, ReceivingAt

LEMMA OverIsReceiving ==
  ASSUME setup \in Setups, Receiving, setup' = setup, received' = received,
         parts' = <<>>, opening' = FALSE, stream' \in {"closed", "connection failed"}
  PROVE  Receiving'
<1>1. PICK s, o, p, d, at : /\ s = stream' /\ o = FALSE /\ p = <<>> /\ d = received
                            /\ at = GoesOn(1)'
  OBVIOUS
<1>2. IsList(p) /\ Len(p) = 0 /\ p = [i \in 1 .. Len(p) |-> <<Len(d) + 1, i>>]
  BY <1>1, EmptyPlaces
<1>3. setup.maxPayload \in Nat BY SetupFacts
<1>4. Len(p) <= setup.maxPayload
  <2>1. PICK n, m : n = Len(p) /\ m = setup.maxPayload OBVIOUS
  <2>2. n = 0 /\ m \in Nat BY <1>2, <1>3, <2>1
  <2>3. n <= m BY <2>2, ZeroLeast
  <2> QED BY <2>1, <2>3
<1>5. s \in {"closed", "connection failed"} BY <1>1
<1>6. /\ IsList(d) /\ Len(d) <= Len(setup.payloads)
      /\ \A k \in 1 .. Len(d) : d[k] = [i \in 1 .. Total(k) |-> <<k, i>>]
  BY <1>1 DEF Receiving
<1>7. o \in BOOLEAN /\ ~o /\ p = <<>> BY <1>1
<1>8. ReceivingAt(s, o, p, d, at) BY <1>2, <1>4, <1>5, <1>6, <1>7 DEF ReceivingAt
<1> QED BY <1>1, <1>8, ReceivingNext

(* A fragment that is not the last joins the buffer.                       *)
LEMMA JoinedIsReceiving ==
  ASSUME setup \in Setups, Receiving, setup' = setup, NEW f, Sound(f),
         f.payload = Len(received) + 1, f.start = Len(parts), f.more,
         GoesOn(1)' = After(f), WithinPayloadCap(f), stream \in {"none", "open"},
         received' = received, parts' = parts \o Places(f), opening' = (f.type = "open"),
         stream' = "open"
  PROVE  Receiving'
<1>1. PICK s, o, p, d, at : /\ s = "open" /\ o = (f.type = "open") /\ p = parts \o Places(f)
                            /\ d = received /\ at = GoesOn(1)'
  OBVIOUS
<1>2. /\ IsList(p) /\ Len(p) = Len(parts) + f.count
      /\ p = [i \in 1 .. Len(p) |-> <<Len(d) + 1, i>>]
  BY <1>1, JoinFacts
<1>3. Len(p) <= setup.maxPayload BY <1>2 DEF WithinPayloadCap
<1>4. at = <<Len(d) + 1, Len(p)>>
  <2>1. After(f) = <<f.payload, f.start + f.count>> BY DEF After, Ahead
  <2> QED BY <1>1, <1>2, <2>1
<1>5. /\ IsList(d) /\ Len(d) <= Len(setup.payloads) /\ Len(d) \in Nat
      /\ \A k \in 1 .. Len(d) : d[k] = [i \in 1 .. Total(k) |-> <<k, i>>]
  <2>1. IsList(received) BY DEF Receiving
  <2> QED BY <1>1, <2>1, ListFacts DEF Receiving
<1>6. f.type = "open" <=> f.payload = 1 /\ setup.opens BY DEF Sound
<1>7. f.payload = 1 <=> d = <<>> BY <1>1, <1>5, ListFacts
<1>8. o \in BOOLEAN /\ (o <=> setup.opens /\ d = <<>>) BY <1>1, <1>6, <1>7
<1>9. ReceivingAt(s, o, p, d, at) BY <1>1, <1>2, <1>3, <1>4, <1>5, <1>8 DEF ReceivingAt
<1> QED BY <1>1, <1>9, ReceivingNext

(* The last fragment, or a payload that came whole, is handed on.          *)
LEMMA HandedIsReceiving ==
  ASSUME setup \in Setups, Receiving, setup' = setup, NEW f, Sound(f),
         f.payload = Len(received) + 1, f.start = Len(parts), ~f.more,
         GoesOn(1)' = After(f), received' = Append(received, parts \o Places(f)),
         parts' = <<>>, opening' = FALSE, stream' = State(f)
  PROVE  Receiving'
<1>1. PICK s, o, p, d, at, w : /\ s = State(f) /\ o = FALSE /\ p = <<>> /\ w = parts \o Places(f)
                               /\ d = Append(received, w) /\ at = GoesOn(1)'
  OBVIOUS
<1>2. /\ IsList(received) /\ Len(received) \in Nat
      /\ \A k \in 1 .. Len(received) : received[k] = [i \in 1 .. Total(k) |-> <<k, i>>]
  <2>1. IsList(received) BY DEF Receiving
  <2> QED BY <2>1, ListFacts DEF Receiving
<1>3. f.start + f.count = Total(f.payload) BY DEF Sound
<1>4. w = [i \in 1 .. Total(f.payload) |-> <<f.payload, i>>]
  <2>1. w = [i \in 1 .. Len(parts) + f.count |-> <<Len(received) + 1, i>>] BY <1>1, JoinFacts
  <2>2. Len(parts) + f.count = Total(f.payload) BY <1>3
  <2> QED BY <2>1, <2>2
<1>5. /\ IsList(d) /\ Len(d) = Len(received) + 1 /\ d # <<>>
      /\ \A i \in 1 .. Len(received) : d[i] = received[i]
      /\ d[Len(received) + 1] = w
  BY <1>1, <1>2, AppendFacts
<1>6. f.payload = Len(d) BY <1>5
<1>7. \A k \in 1 .. Len(d) : d[k] = [i \in 1 .. Total(k) |-> <<k, i>>]
  <2> SUFFICES ASSUME NEW k \in 1 .. Len(d) PROVE d[k] = [i \in 1 .. Total(k) |-> <<k, i>>]
    OBVIOUS
  <2>1. CASE k \in 1 .. Len(received) BY <1>2, <1>5, <2>1
  <2>2. CASE k = f.payload BY <1>4, <1>5, <2>2
  <2> QED BY <1>2, <1>5, <2>1, <2>2
<1>8. Len(d) <= Len(setup.payloads) BY <1>6, SoundFacts
<1>9. IsList(p) /\ Len(p) = 0 /\ p = [i \in 1 .. Len(p) |-> <<Len(d) + 1, i>>]
  BY <1>1, EmptyPlaces
<1>10. setup.maxPayload \in Nat BY SetupFacts
<1>11. Len(p) <= setup.maxPayload
  <2>1. PICK n, m : n = Len(p) /\ m = setup.maxPayload OBVIOUS
  <2>2. n = 0 /\ m \in Nat BY <1>9, <1>10, <2>1
  <2>3. n <= m BY <2>2, ZeroLeast
  <2> QED BY <2>1, <2>3
<1>12. at = <<Len(d) + 1, Len(p)>>
  <2>1. After(f) = <<f.payload + 1, 0>> BY DEF After, Ahead
  <2> QED BY <1>1, <1>6, <1>9, <2>1
<1>13. s \in {"open", "ended"} /\ (s = "ended" => f.end) BY <1>1 DEF State
<1>14. s = "ended" => Len(d) = Len(setup.payloads) BY <1>6, <1>13 DEF Sound
<1>15. o \in BOOLEAN /\ ~o /\ p = <<>> BY <1>1
<1>16. ReceivingAt(s, o, p, d, at)
  BY <1>5, <1>7, <1>8, <1>9, <1>11, <1>12, <1>13, <1>14, <1>15 DEF ReceivingAt
<1> QED BY <1>1, <1>16, ReceivingNext

-----------------------------------------------------------------------------
(* The receiver takes the head of the wire.                                *)
Takes == /\ wire # <<>> /\ wire' = Tail(wire)
         /\ UNCHANGED <<setup, current, position, emitted, sender>>

LEMMA TakesFacts ==
  ASSUME FragInv, Takes, NEW f, f = Head(wire)
  PROVE  /\ setup \in Setups /\ Receiving /\ Blaming
         /\ f = wire[1] /\ 1 \in 1 .. Len(wire)
         /\ IsData(f) => Sound(f) /\ GoesOn(1)' = After(f)
         /\ IsData(f) /\ Live => f.payload = Len(received) + 1 /\ f.start = Len(parts)
         /\ ~IsData(f) => GoesOn(1)' = GoesOn(1)
<1>1. /\ setup \in Setups /\ Receiving /\ Blaming /\ OnTheWire BY DEF FragInv
<1>2. /\ setup' = setup /\ wire # <<>> /\ wire' = Tail(wire)
      /\ UNCHANGED <<current, position, sender>>
  BY DEF Takes
<1> QED BY <1>1, <1>2, HeadFacts

LEMMA OverKeeps ==
  ASSUME FragInv, Takes, TooLarge \/ ~IsData(Head(wire)),
         received' = received, parts' = <<>>, opening' = FALSE,
         stream' = "closed" \/ (stream' = "connection failed" /\ setup.opens /\ TooLarge),
         back' = back \/ (back' = Append(back, "PAYLOAD_TOO_LARGE") /\ TooLarge)
  PROVE  FragInv'
<1>1. setup \in Setups /\ Receiving BY DEF FragInv
<1>2. /\ setup' = setup /\ wire # <<>> /\ wire' = Tail(wire)
      /\ UNCHANGED <<current, position, emitted, sender>>
  BY DEF Takes
<1>3. stream' \in {"closed", "connection failed"} OBVIOUS
<1>4. Receiving' BY <1>1, <1>2, <1>3, OverIsReceiving
<1>5. stream' = "connection failed" => setup.opens /\ TooLarge OBVIOUS
<1> QED BY <1>2, <1>4, <1>5, ReceiveKeeps

LEMMA IgnoreKeeps ==
  ASSUME FragInv, Takes, stream = "closed" \/ ~IsData(Head(wire)), Ignore
  PROVE  FragInv'
<1>1. setup' = setup /\ UNCHANGED <<back, stream, opening, parts, received>> BY DEF Takes, Ignore
<1>2. PICK f : f = Head(wire) OBVIOUS
<1>3. Receiving /\ (~IsData(f) => GoesOn(1)' = GoesOn(1)) BY <1>2, TakesFacts
<1>4. Live => GoesOn(1)' = GoesOn(1) BY <1>2, <1>3 DEF Live
<1>5. Receiving' BY <1>1, <1>3, <1>4, ReceivingKept
<1> QED BY <1>1, <1>5, ReceiveKeeps DEF Takes

(* The state in which a frame of the generator is read by a live stream.   *)
LEMMA LiveFacts ==
  ASSUME FragInv, Takes, NEW f, f = Head(wire), IsData(f), stream \in {"none", "open", "ended"}
  PROVE  /\ setup \in Setups /\ Receiving /\ Sound(f) /\ GoesOn(1)' = After(f)
         /\ f.payload = Len(received) + 1 /\ f.start = Len(parts)
         /\ stream # "ended"
         /\ f.start + f.count <= Total(f.payload) /\ f.payload \in Payloads
         /\ f.type = "open" <=> (setup.opens /\ received = <<>>)
         /\ Len(received) \in Nat /\ Len(parts) \in Nat
         /\ Len(parts) = 0 => parts = <<>>
<1>1. /\ setup \in Setups /\ Receiving /\ Sound(f) /\ GoesOn(1)' = After(f)
      /\ f.payload = Len(received) + 1 /\ f.start = Len(parts)
  BY TakesFacts DEF Live
<1>2. f.start + f.count <= Total(f.payload) /\ f.payload \in Payloads BY <1>1 DEF Sound
<1>3. IsList(received) /\ IsList(parts) BY <1>1 DEF Receiving
<1>4. /\ Len(received) \in Nat /\ (received = <<>> <=> Len(received) = 0)
      /\ Len(parts) \in Nat /\ (parts = <<>> <=> Len(parts) = 0)
  BY <1>3, ListFacts
<1>5. stream # "ended"
  <2>1. f.payload <= Len(setup.payloads) /\ Len(setup.payloads) \in Nat
    BY <1>1, SoundFacts, SetupFacts
  <2>2. stream = "ended" => Len(received) = Len(setup.payloads) BY <1>1 DEF Receiving
  <2> QED BY <1>1, <1>4, <2>1, <2>2
<1>6. f.payload = 1 <=> received = <<>> BY <1>1, <1>4
<1>7. f.type = "open" <=> (setup.opens /\ received = <<>>) BY <1>1, <1>6 DEF Sound
<1> QED BY <1>1, <1>2, <1>4, <1>5, <1>7

LEMMA FeedKeeps ==
  ASSUME FragInv, Takes, NEW f, f = Head(wire), IsData(f), stream \in {"none", "open"}, Feed(f)
  PROVE  FragInv'
<1>1. /\ setup \in Setups /\ Receiving /\ Sound(f) /\ GoesOn(1)' = After(f)
      /\ f.payload = Len(received) + 1 /\ f.start = Len(parts)
      /\ f.start + f.count <= Total(f.payload) /\ f.payload \in Payloads
      /\ Len(parts) \in Nat
  BY LiveFacts
<1>2. /\ setup' = setup /\ wire # <<>> /\ wire' = Tail(wire)
      /\ UNCHANGED <<current, position, emitted, sender>>
  BY DEF Takes
<1>3. CASE ~WithinPayloadCap(f) /\ Reset("PAYLOAD_TOO_LARGE")
  <2>1. TooLarge
    <3>1. f.count \in Nat /\ Total(f.payload) \in Nat /\ setup.maxPayload \in Nat
      BY <1>1, SoundFacts, SetupFacts
    <3>2. Total(f.payload) > setup.maxPayload BY <1>1, <1>3, <3>1 DEF WithinPayloadCap
    <3> QED BY <1>1, <3>2 DEF TooLarge
  <2>2. /\ back' = Append(back, "PAYLOAD_TOO_LARGE") /\ stream' = "closed" /\ opening' = FALSE
        /\ parts' = <<>> /\ received' = received
    BY <1>3 DEF Reset
  <2> QED BY <2>1, <2>2, OverKeeps
<1>4. CASE /\ WithinPayloadCap(f) /\ f.more
           /\ parts' = parts \o Places(f) /\ opening' = (f.type = "open")
           /\ stream' = IF stream = "none" THEN "open" ELSE stream
           /\ UNCHANGED <<back, received>>
  <2>1. stream' = "open" BY <1>4
  <2>2. Receiving' BY <1>1, <1>2, <1>4, <2>1, JoinedIsReceiving
  <2>3. back' = back /\ stream' # "closed" /\ stream' # "connection failed" BY <1>4, <2>1
  <2> QED BY <1>2, <2>2, <2>3, ReceiveKeeps
<1>5. CASE /\ ~f.more /\ parts' = <<>> /\ received' = Append(received, parts \o Places(f))
           /\ opening' = FALSE /\ stream' = State(f) /\ UNCHANGED back
  <2>1. Receiving' BY <1>1, <1>2, <1>5, HandedIsReceiving
  <2>2. back' = back /\ stream' # "closed" /\ stream' # "connection failed" BY <1>5 DEF State
  <2> QED BY <1>2, <2>1, <2>2, ReceiveKeeps
<1> QED BY <1>3, <1>4, <1>5 DEF Feed

LEMMA AcceptKeeps ==
  ASSUME FragInv, Takes, NEW f, f = Head(wire), IsData(f), stream \in {"none", "open"},
         f.whole, parts = <<>>, ~opening, Accept(f)
  PROVE  FragInv'
<1>1. /\ setup \in Setups /\ Receiving /\ Sound(f) /\ GoesOn(1)' = After(f)
      /\ f.payload = Len(received) + 1 /\ f.start = Len(parts)
  BY LiveFacts
<1>2. /\ setup' = setup /\ wire # <<>> /\ wire' = Tail(wire)
      /\ UNCHANGED <<current, position, emitted, sender>>
  BY DEF Takes
<1>3. f.start = 0 /\ ~f.more BY <1>1 DEF Sound
<1>4. Places(f) = parts \o Places(f)
  <2>1. PICK z : z = parts \o Places(f) OBVIOUS
  <2>2. z = [i \in 1 .. Len(parts) + f.count |-> <<Len(received) + 1, i>>] BY <1>1, <2>1, JoinFacts
  <2>3. f.count \in Nat BY <1>1, SoundFacts
  <2>4. Len(parts) = 0 /\ Len(parts) + f.count = f.count BY <1>1, <1>3, <2>3
  <2>5. Places(f) = [i \in 1 .. f.count |-> <<Len(received) + 1, 0 + i>>] BY <1>1, <1>3 DEF Places
  <2>6. \A i \in 1 .. f.count : 0 + i = i OBVIOUS
  <2>7. Places(f) = z BY <2>2, <2>4, <2>5, <2>6
  <2> QED BY <2>1, <2>7
<1>5. /\ received' = Append(received, parts \o Places(f)) /\ stream' = State(f)
      /\ parts' = <<>> /\ opening' = FALSE /\ back' = back
  <2>1. opening \in BOOLEAN BY <1>1 DEF Receiving
  <2> QED BY <1>4, <2>1 DEF Accept
<1>6. Receiving' BY <1>1, <1>2, <1>3, <1>5, HandedIsReceiving
<1>7. stream' # "closed" /\ stream' # "connection failed" BY <1>5 DEF State
<1> QED BY <1>2, <1>5, <1>6, <1>7, ReceiveKeeps

LEMMA LargerThan ==
  ASSUME NEW s \in Nat, NEW m \in Nat, NEW c \in Nat, s <= c, s > m PROVE c > m
OBVIOUS

LEMMA FirstOfAll == ASSUME NEW p, NEW n \in Nat, p = n + 1, p = 1 PROVE n = 0
OBVIOUS

LEMMA OverCapKeeps ==
  ASSUME FragInv, Takes, NEW f, f = Head(wire), IsData(f), f.size > setup.maxFrame,
         stream # "connection failed", OverCap(f)
  PROVE  FragInv'
<1>1. setup \in Setups /\ Receiving /\ Sound(f) BY TakesFacts
<1>2. TooLarge
  <2>1. f.size \in Nat /\ f.size <= setup.cap BY <1>1 DEF Sound
  <2>2. setup.cap \in Nat /\ setup.maxFrame \in Nat BY <1>1, SetupFacts
  <2>3. PICK s, m, c : s = f.size /\ m = setup.maxFrame /\ c = setup.cap OBVIOUS
  <2>4. s \in Nat /\ m \in Nat /\ c \in Nat /\ s <= c /\ s > m BY <2>1, <2>2, <2>3
  <2>5. c > m BY <2>4, LargerThan
  <2> QED BY <2>3, <2>5 DEF TooLarge
<1>3. CASE f.type = "open" /\ FailConnection
  <2>1. setup.opens BY <1>1, <1>3 DEF Sound
  <2> QED BY <1>2, <1>3, <2>1, OverKeeps DEF FailConnection
<1>4. CASE stream = "closed" /\ Ignore BY <1>4, IgnoreKeeps
<1>5. CASE Reset("PAYLOAD_TOO_LARGE") BY <1>2, <1>5, OverKeeps DEF Reset
<1> QED BY <1>3, <1>4, <1>5 DEF OverCap

LEMMA OnOpenKeeps ==
  ASSUME FragInv, Takes, NEW f, f = Head(wire), f.type = "open",
         stream # "connection failed", OnOpen(f)
  PROVE  FragInv'
<1>1. IsData(f) BY DEF IsData
<1>2. setup \in Setups /\ Receiving /\ Blaming /\ Sound(f) /\ f = wire[1] /\ 1 \in 1 .. Len(wire)
  BY <1>1, TakesFacts
<1>3. CASE stream = "closed" /\ FailConnection
  <2>1. TooLarge BY <1>2, <1>3 DEF Blaming
  <2>2. setup.opens BY <1>2 DEF Sound
  <2> QED BY <1>3, <2>1, <2>2, OverKeeps DEF FailConnection
<1>4. CASE stream = "none" /\ f.whole /\ Accept(f)
  <2>1. parts = <<>> /\ ~opening BY <1>2, <1>4 DEF Receiving
  <2> QED BY <1>1, <1>4, <2>1, AcceptKeeps
<1>5. CASE (stream = "none" \/ opening) /\ Feed(f)
  <2>1. stream \in {"none", "open"} BY <1>2, <1>5 DEF Receiving
  <2> QED BY <1>1, <1>5, <2>1, FeedKeeps
<1> QED BY <1>3, <1>4, <1>5 DEF OnOpen

LEMMA OnDataKeeps ==
  ASSUME FragInv, Takes, NEW f, f = Head(wire), f.type = "data",
         stream # "connection failed", OnData(f)
  PROVE  FragInv'
<1>1. IsData(f) BY DEF IsData
<1>2. CASE stream = "closed" /\ Ignore BY <1>2, IgnoreKeeps
<1>3. CASE stream \in {"open", "ended"}
  <2>1. /\ Receiving /\ Sound(f) /\ stream # "ended" /\ Len(received) \in Nat
        /\ f.payload = Len(received) + 1 /\ f.start = Len(parts)
        /\ (f.type = "open" <=> (setup.opens /\ received = <<>>))
        /\ (Len(parts) = 0 => parts = <<>>)
    BY <1>1, <1>3, LiveFacts
  <2>2. stream = "open" BY <1>3, <2>1
  <2>3. ~opening
    <3>1. opening => setup.opens /\ received = <<>> BY <2>1 DEF Receiving
    <3> QED BY <2>1, <3>1
  <2>4. f.whole => parts = <<>> BY <2>1 DEF Sound
  <2>5. f.headers => received = <<>> /\ parts = <<>>
    <3>1. f.headers => Len(received) = 0 /\ Len(parts) = 0
      <4>1. f.headers => f.payload = 1 /\ f.start = 0 BY <2>1 DEF Sound
      <4>2. f.payload = 1 => Len(received) = 0 BY <2>1, FirstOfAll
      <4> QED BY <2>1, <4>1, <4>2
    <3>2. IsList(received) BY <2>1 DEF Receiving
    <3>3. Len(received) = 0 => received = <<>> BY <3>2, ListFacts
    <3> QED BY <2>1, <3>1, <3>3
  <2>6. CASE f.whole /\ Accept(f) BY <1>1, <2>2, <2>3, <2>4, <2>6, AcceptKeeps
  <2>7. CASE Feed(f) BY <1>1, <2>2, <2>7, FeedKeeps
  <2> QED BY <2>2, <2>4, <2>5, <2>6, <2>7 DEF OnData
<1> QED BY <1>2, <1>3 DEF OnData

LEMMA OnResetKeeps ==
  ASSUME FragInv, Takes, NEW f, f = Head(wire), f.type = "reset", OnReset
  PROVE  FragInv'
<1>1. ~IsData(f) BY DEF IsData
<1>2. Receiving BY TakesFacts
<1>3. CASE stream = "none"
  <2>1. parts = <<>> /\ opening = FALSE BY <1>2, <1>3 DEF Receiving
  <2>2. Ignore BY <1>3, <2>1 DEF OnReset, Ignore
  <2> QED BY <1>1, <2>2, IgnoreKeeps
<1>4. CASE stream # "none"
  <2>1. /\ stream' = "closed" /\ opening' = FALSE /\ parts' = <<>> /\ back' = back
        /\ received' = received
    BY <1>4 DEF OnReset
  <2> QED BY <1>1, <2>1, OverKeeps
<1> QED BY <1>3, <1>4

LEMMA ReceiveStepKeeps == ASSUME FragInv, Receive PROVE FragInv'
<1>1. Takes /\ stream # "connection failed" BY DEF Receive, Takes
<1>2. PICK f : f = Head(wire) OBVIOUS
<1>3. CASE f.type = "reset" /\ OnReset BY <1>1, <1>2, <1>3, OnResetKeeps
<1>4. CASE f.type # "reset" /\ f.size > setup.maxFrame /\ OverCap(f)
  <2>1. IsData(f) BY <1>4 DEF IsData
  <2> QED BY <1>1, <1>2, <1>4, <2>1, OverCapKeeps
<1>5. CASE f.type = "open" /\ OnOpen(f) BY <1>1, <1>2, <1>5, OnOpenKeeps
<1>6. CASE f.type = "data" /\ OnData(f) BY <1>1, <1>2, <1>6, OnDataKeeps
<1> QED BY <1>2, <1>3, <1>4, <1>5, <1>6 DEF Receive

(* The receiving application gives the stream up: an open stream of which  *)
(* the opening is over has received its first payload, so none is on the   *)
(* wire any more.                                                          *)
LEMMA ReceiverResetsKeeps == ASSUME FragInv, ReceiverResets PROVE FragInv'
<1>1. /\ setup \in Setups /\ Sending /\ OnTheWire /\ Receiving /\ Blaming
      /\ RefusesOnlyHopeless
  BY DEF FragInv
<1>2. /\ stream \in {"open", "ended"} /\ ~opening /\ setup' = setup
      /\ back' = Append(back, "CANCELLED") /\ stream' = "closed" /\ opening' = FALSE
      /\ parts' = <<>> /\ received' = received
      /\ UNCHANGED <<current, position, emitted, sender, wire>>
  BY DEF ReceiverResets, Reset
<1>3. OnTheWire' BY <1>1, <1>2, WireKept
<1>4. stream' \in {"closed", "connection failed"} BY <1>2
<1>5. Receiving' BY <1>1, <1>2, <1>4, OverIsReceiving
<1>6. Sending' BY <1>1, <1>2, SendingKept DEF Sending
<1>7. RefusesOnlyHopeless' BY <1>1, <1>2, HopelessKept
<1>8. ASSUME setup.opens
      PROVE  /\ \A i \in 1 .. Len(wire) : wire[i].type # "open"
             /\ current # 1
  <2>1. received # <<>> /\ GoesOn(1) = <<Len(received) + 1, Len(parts)>>
    BY <1>1, <1>2, <1>8 DEF Receiving, Live
  <2>2. Len(received) \in Nat \ {0}
    <3>1. IsList(received) BY <1>1 DEF Receiving
    <3> QED BY <2>1, <3>1, ListFacts
  <2>3. GoesOn(1)[1] >= 2 BY <2>1, <2>2
  <2>4. current >= 2 /\ \A i \in 1 .. Len(wire) : IsData(wire[i]) => wire[i].payload >= 2
    BY <1>1, <2>3, LaterFrames
  <2>5. \A i \in 1 .. Len(wire) : wire[i].type = "open" => IsData(wire[i]) /\ wire[i].payload = 1
    BY <1>1 DEF OnTheWire, IsData, Sound
  <2> QED BY <2>4, <2>5
<1>9. ~setup.opens => \A i \in 1 .. Len(wire) : wire[i].type # "open"
  BY <1>1 DEF OnTheWire, IsData, Sound
<1>10. Blaming'
  <2>1. TooLarge' <=> TooLarge BY <1>2, SamePlaces
  <2>2. PICK b : b = Append(back, "CANCELLED") OBVIOUS
  <2>3. IsList(back) /\ \A i \in 1 .. Len(back) :
           back[i] = "CANCELLED" \/ (back[i] = "PAYLOAD_TOO_LARGE" /\ TooLarge)
    BY <1>1 DEF Blaming
  <2>4. /\ IsList(b) /\ \A i \in 1 .. Len(back) : b[i] = back[i]
        /\ b[Len(back) + 1] = "CANCELLED"
        /\ \A i \in 1 .. Len(b) : i \in 1 .. Len(back) \/ i = Len(back) + 1
    BY <2>2, <2>3, AppendFacts, AppendCases
  <2>5. \A i \in 1 .. Len(b) : b[i] = "CANCELLED" \/ (b[i] = "PAYLOAD_TOO_LARGE" /\ TooLarge)
    BY <2>3, <2>4
  <2>6. IsList(back)' BY <1>2, <2>2, <2>4 DEF IsList
  <2>7. /\ \A i \in 1 .. Len(wire) : wire[i].type # "open"
        /\ ~(setup.opens /\ current = 1 /\ sender = "open")
    BY <1>8, <1>9
  <2>8. back' = b BY <1>2, <2>2
  <2> QED BY <1>2, <2>1, <2>5, <2>6, <2>7, <2>8 DEF Blaming
<1> QED BY <1>1, <1>2, <1>3, <1>5, <1>6, <1>7, <1>10 DEF FragInv

LEMMA StutterKeeps == ASSUME FragInv, UNCHANGED vars PROVE FragInv'
<1>1. /\ setup \in Setups /\ Sending /\ OnTheWire /\ Receiving /\ Blaming
      /\ RefusesOnlyHopeless
  BY DEF FragInv
<1>2. /\ setup' = setup /\ UNCHANGED <<current, position, emitted, sender, wire, back>>
      /\ UNCHANGED <<stream, opening, parts, received>>
  BY DEF vars
<1>3. OnTheWire' /\ GoesOn(1)' = GoesOn(1) BY <1>1, <1>2, WireKept
<1>4. Receiving' BY <1>1, <1>2, <1>3, ReceivingKept
<1>5. Sending' BY <1>1, <1>2, SendingKept DEF Sending
<1>6. RefusesOnlyHopeless' BY <1>1, <1>2, HopelessKept
<1>7. Blaming' BY <1>1, <1>2, BlamingKept DEF Blaming
<1> QED BY <1>1, <1>2, <1>3, <1>4, <1>5, <1>6, <1>7 DEF FragInv

LEMMA FragStep == ASSUME FragInv, [Next]_vars PROVE FragInv'
<1>1. CASE SendWhole BY <1>1, SendWholeKeeps
<1>2. CASE SendClosing BY <1>2, SendClosingKeeps
<1>3. CASE SendMiddle BY <1>3, SendMiddleKeeps
<1>4. CASE Refuses BY <1>4, RefusesKeeps
<1>5. CASE SenderResets BY <1>5, SenderResetsKeeps
<1>6. CASE SenderIsReset BY <1>6, SenderIsResetKeeps
<1>7. CASE Receive BY <1>7, ReceiveStepKeeps
<1>8. CASE ReceiverResets BY <1>8, ReceiverResetsKeeps
<1>9. CASE UNCHANGED vars BY <1>9, StutterKeeps
<1> QED BY <1>1, <1>2, <1>3, <1>4, <1>5, <1>6, <1>7, <1>8, <1>9 DEF Next, WriteLoop

(* FragInv holds in every state of the program. *)
LEMMA Fragments == Spec => []FragInv
<1>1. Init => FragInv BY FragInit
<1>2. FragInv /\ [Next]_vars => FragInv' BY FragStep
<1> QED BY <1>1, <1>2, PTL DEF Spec

-----------------------------------------------------------------------------
LEMMA LegalFragments == ASSUME FragInv PROVE FragmentsFit
<1>1. setup \in Setups /\ OnTheWire /\ RefusesOnlyHopeless BY DEF FragInv
<1>2. ASSUME NEW i \in 1 .. Len(wire), wire[i].type # "reset"
      PROVE  LET f == wire[i]
                 end == f.start + f.count
                 more == f.count + FirstUnitWidth(f.payload, end)
             IN  /\ f.size <= setup.cap
                 /\ setup.text /\ end < Total(f.payload) => ~IsContinuation(f.payload, end + 1)
                 /\ f.more => /\ f.count > 0
                              /\ \/ end = Total(f.payload)
                                 \/ more > Budget
                                 \/ ~Fits(f.payload, f.start = 0, FALSE, f.start, more)
  <2>1. PICK f : f = wire[i] OBVIOUS
  <2>2. Sound(f) BY <1>1, <1>2, <2>1 DEF OnTheWire, IsData
  <2>3. Total(f.payload) \in Nat /\ f.start \in Nat /\ f.count \in Nat BY <1>1, <2>2, SoundFacts
  <2>4. f.size <= setup.cap BY <2>2 DEF Sound
  <2>5. setup.text /\ f.start + f.count < Total(f.payload)
           => ~IsContinuation(f.payload, f.start + f.count + 1)
    <3>1. Place(f.payload, f.start + f.count) BY <2>2 DEF Sound
    <3> QED BY <2>3, <3>1 DEF Place
  <2>6. f.more => f.count > 0 /\ Filled(f.payload, f.start, f.count) BY <2>2 DEF Sound
  <2> QED BY <2>1, <2>4, <2>5, <2>6 DEF Filled
<1>3. WellCut BY <1>2 DEF WellCut
<1> QED BY <1>1, <1>3 DEF FragmentsFit

LEMMA FairReceiver == ASSUME FragInv PROVE ReceiverIsFair
<1>1. setup \in Setups /\ Receiving /\ Blaming BY DEF FragInv
<1>2. Reassembled BY <1>1 DEF Receiving, Reassembled
<1>3. JustRefusals
  <2>1. TooLarge <=> \/ setup.cap > setup.maxFrame
                     \/ \E k \in 1 .. Len(setup.payloads) : Total(k) > setup.maxPayload
    BY DEF TooLarge, Payloads
  <2> QED BY <1>1, <2>1 DEF Blaming, JustRefusals
<1>4. BufferBounded BY <1>1 DEF Receiving, BufferBounded
<1> QED BY <1>2, <1>3, <1>4 DEF ReceiverIsFair

LEMMA FragmentTypes == ASSUME FragInv PROVE TypeOK
<1>1. setup \in Setups /\ Sending /\ OnTheWire /\ Receiving /\ Blaming BY DEF FragInv
<1>2. Len(setup.payloads) \in Nat /\ current \in Nat \ {0} /\ position \in Nat
  BY <1>1, SetupFacts DEF Sending
<1>3. current \in 1 .. Len(setup.payloads) + 1 BY <1>1, <1>2 DEF Sending
<1>4. position \in 0 .. (IF current > Len(setup.payloads) THEN 0 ELSE Total(current))
  <2>1. CASE current > Len(setup.payloads)
    <3>1. position = 0 BY <1>1, <1>2, <2>1 DEF Sending
    <3> QED BY <2>1, <3>1
  <2>2. CASE ~(current > Len(setup.payloads))
    <3>1. current <= Len(setup.payloads) BY <1>2, <2>2
    <3>2. position <= Total(current) BY <1>1, <3>1 DEF Sending
    <3>3. current \in Payloads BY <1>2, <3>1 DEF Payloads
    <3>4. Total(current) \in Nat BY <1>1, <3>3, SetupFacts
    <3> QED BY <1>2, <2>2, <3>2, <3>4
  <2> QED BY <2>1, <2>2
<1>5. emitted <= position /\ sender \in {"open", "ended", "unencodable", "reset"}
  BY <1>1 DEF Sending
<1>6. \A i \in 1 .. Len(wire) : wire[i].type \in {"open", "data", "reset"}
  BY <1>1 DEF OnTheWire, IsData, Sound
<1>7. back \in Seq({"PAYLOAD_TOO_LARGE", "PROTOCOL_ERROR", "CANCELLED"})
  <2>1. /\ IsList(back)
        /\ \A i \in 1 .. Len(back) : back[i] \in {"PAYLOAD_TOO_LARGE", "CANCELLED"}
    BY <1>1 DEF Blaming
  <2>2. Len(back) \in Nat /\ back = [n \in 1 .. Len(back) |-> back[n]] BY <2>1, ListFacts
  <2>3. back \in [1 .. Len(back) -> {"PAYLOAD_TOO_LARGE", "PROTOCOL_ERROR", "CANCELLED"}]
    BY <2>1, <2>2
  <2> QED BY <2>2, <2>3
<1>8. /\ stream \in {"none", "open", "ended", "closed", "connection failed"}
      /\ opening \in BOOLEAN /\ (opening => setup.opens)
      /\ Len(received) <= Len(setup.payloads)
  BY <1>1 DEF Receiving
<1>9. \A i \in 1 .. Len(parts) : parts[i] \in (1 .. Len(setup.payloads)) \X Nat
  <2> SUFFICES ASSUME NEW i \in 1 .. Len(parts)
               PROVE  parts[i] \in (1 .. Len(setup.payloads)) \X Nat
    OBVIOUS
  <2>1. IsList(parts) /\ IsList(received) BY <1>1 DEF Receiving
  <2>2. Len(parts) \in Nat \ {0} /\ parts # <<>> /\ Len(received) \in Nat BY <2>1, ListFacts
  <2>3. parts[i] = <<Len(received) + 1, i>> BY <1>1 DEF Receiving
  <2>4. GoesOn(1) = <<Len(received) + 1, Len(parts)>> BY <1>1, <2>2 DEF Receiving, Live
  <2>5. Len(received) + 1 \in 1 .. Len(setup.payloads)
    <3>1. CASE 1 <= Len(wire) /\ IsData(wire[1])
      <4>1. Len(received) + 1 = wire[1].payload BY <2>4, <3>1 DEF GoesOn
      <4>2. Len(wire) \in Nat BY <1>1, WireFacts
      <4>3. Sound(wire[1]) BY <1>1, <3>1, <4>2 DEF OnTheWire
      <4> QED BY <4>1, <4>3 DEF Sound, Payloads
    <3>2. CASE ~(1 <= Len(wire) /\ IsData(wire[1]))
      <4>1. Len(received) + 1 = current /\ Len(parts) = position BY <2>4, <3>2 DEF GoesOn
      <4>2. position # 0 BY <2>2, <4>1
      <4>3. current <= Len(setup.payloads) BY <1>1, <4>2 DEF Sending
      <4> QED BY <1>2, <4>1, <4>3
    <3> QED BY <3>1, <3>2
  <2> QED BY <2>2, <2>3, <2>5
<1> QED BY <1>1, <1>3, <1>4, <1>5, <1>6, <1>7, <1>8, <1>9 DEF TypeOK

(* The generator never yields a frame that the code above and below it     *)
(* could not use, and gives up only on a payload no split of which exists. *)
THEOREM FragmentsAreLegal == Spec => []FragmentsFit
<1>1. FragInv => FragmentsFit BY LegalFragments
<1> QED BY <1>1, Fragments, PTL

(* The receiver hands its application the payloads the sender was given,   *)
(* byte for byte and in order, and it resets or fails only what is over    *)
(* one of its caps: a stream that ends normally was received whole.        *)
THEOREM ReceiverIsExact == Spec => []ReceiverIsFair
<1>1. FragInv => ReceiverIsFair BY FairReceiver
<1> QED BY <1>1, Fragments, PTL

(* Every variable has its type: the places of the split are those of a     *)
(* payload of the stream, and the parts in hand belong to one payload.     *)
THEOREM FragmentTypeCorrect == Spec => []TypeOK
<1>1. FragInv => TypeOK BY FragmentTypes
<1> QED BY <1>1, Fragments, PTL

=============================================================================
