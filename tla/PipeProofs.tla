----------------------------- MODULE PipeProofs -----------------------------
(***************************************************************************)
(* Pipes, for every size of the ring, any processes and any buffers: the   *)
(* ring is the queue of the bytes written and not yet read, and a reader   *)
(* that is alone on its pipe is woken.                                     *)
(***************************************************************************)
EXTENDS Pipes, TLAPS

(* Sequences *)

LEMMA EmptySeq ==
    ASSUME NEW S
    PROVE  <<>> \in Seq(S) /\ Len(<<>>) = 0 /\ \A q \in Seq(S) : q # <<>> => Len(q) \in Nat \ {0}
  OBVIOUS

(* Division with remainder, as the solver knows it.                        *)
LEMMA DivMod == ASSUME NEW m \in Nat \ {0}, NEW x \in Nat PROVE x = m * (x \div m) + (x % m) /\ x \div m \in Nat /\ x % m \in 0 .. m - 1
  BY Z3

(* A larger quotient is larger by a whole divisor.                         *)
LEMMA Mult == ASSUME NEW m \in Nat \ {0}, NEW a \in Nat, NEW b \in Nat, a < b PROVE m * b >= m * a + m
<1>1. b = a + 1 + (b - a - 1) /\ b - a - 1 \in Nat
  OBVIOUS
<1>2. \A k \in Nat : m * (a + 1 + k) = m * a + m + m * k /\ m * k >= 0
  BY Z3
<1> QED BY <1>1, <1>2

(* The remainder is the only one in its range.                             *)
LEMMA ModUnique == ASSUME NEW m \in Nat \ {0}, NEW q \in Nat, NEW r \in 0 .. m - 1 PROVE (m * q + r) % m = r
<1> DEFINE x == m * q + r
<1>1. x \in Nat BY Z3
<1>2. x = m * (x \div m) + (x % m) /\ x \div m \in Nat /\ x % m \in 0 .. m - 1
  BY <1>1, DivMod
<1> DEFINE d == x \div m
<1> DEFINE e == x % m
<1>3. m * q \in Nat /\ m * d \in Nat BY <1>2, Z3
<1>4. CASE d < q
  <2>1. m * q >= m * d + m BY <1>2, <1>4, Mult
  <2> HIDE DEF d, e
  <2> QED BY <1>2, <1>3, <2>1 DEF d, e
<1>5. CASE q < d
  <2>1. m * d >= m * q + m BY <1>2, <1>5, Mult
  <2> QED BY <1>2, <1>3, <2>1
<1>6. CASE q = d
  BY <1>2, <1>3, <1>6
<1> QED BY <1>2, <1>4, <1>5, <1>6

(* Counts less than a divisor apart have different remainders.             *)
LEMMA ModDistinct ==
    ASSUME NEW m \in Nat \ {0}, NEW x \in Nat, NEW y \in Nat, x < y, y - x < m
    PROVE  x % m # y % m
<1> DEFINE a == x \div m
<1> DEFINE b == y \div m
<1>1. /\ x = m * a + (x % m) /\ a \in Nat /\ x % m \in 0 .. m - 1
      /\ y = m * b + (y % m) /\ b \in Nat /\ y % m \in 0 .. m - 1
  BY DivMod
<1> HIDE DEF a, b
<1>2. m * a \in Nat /\ m * b \in Nat
  BY <1>1, Z3
<1>3. a < b => m * b >= m * a + m
  BY <1>1, Mult
<1>4. b < a => m * a >= m * b + m
  BY <1>1, Mult
<1> QED BY <1>1, <1>2, <1>3, <1>4

-----------------------------------------------------------------------------
(* Pipes *)

(* An offset is added to a position before or after it wraps.              *)
LEMMA ModAdd ==
    ASSUME NEW m \in Nat \ {0}, NEW x \in Nat, NEW k \in Nat
    PROVE  ((x % m) + k) % m = (x + k) % m
<1> DEFINE q == x \div m
<1> DEFINE r == x % m
<1>1. x = m * q + r /\ q \in Nat /\ r \in Nat
  BY DivMod
<1> HIDE DEF q, r
<1> DEFINE a == (r + k) \div m
<1> DEFINE b == (r + k) % m
<1>2. r + k = m * a + b /\ a \in Nat /\ b \in 0 .. m - 1
  <2>1. r + k \in Nat
    BY <1>1
  <2> QED BY <2>1, DivMod
<1> HIDE DEF a
<1>3. (m * (q + a) + b) % m = b
  BY <1>1, <1>2, ModUnique
<1> HIDE DEF b
<1>4. m * (q + a) + b = x + k
  BY <1>1, <1>2, Z3
<1> QED BY <1>3, <1>4 DEF r, b

(* A position of the ring. *)
Place(x) == x % PIPE_BUF_SIZE
Places == 0 .. PIPE_BUF_SIZE - 1

(* How positions of the ring wrap.                                         *)
LEMMA PipeRing ==
    /\ PIPE_BUF_SIZE \in Nat \ {0} /\ 0 \in Places
    /\ \A x \in Nat : Place(x) \in Places
    /\ \A x, k \in Nat : Place(Place(x) + k) = Place(x + k)
    /\ \A x, y \in Nat : x < y /\ y - x < PIPE_BUF_SIZE => Place(x) # Place(y)
<1>1. PIPE_BUF_SIZE \in Nat \ {0} /\ 0 \in Places
  BY PipeConstants DEF Places
<1>2. ASSUME NEW x \in Nat PROVE Place(x) \in Places
  <2>1. x % PIPE_BUF_SIZE \in 0 .. PIPE_BUF_SIZE - 1
    BY <1>1, DivMod
  <2> QED BY <2>1, Zenon DEF Place, Places
<1>3. \A x, k \in Nat : Place(Place(x) + k) = Place(x + k)
  BY <1>1, ModAdd, Zenon DEF Place
<1>4. \A x, y \in Nat : x < y /\ y - x < PIPE_BUF_SIZE => Place(x) # Place(y)
  BY <1>1, ModDistinct DEF Place
<1> QED BY <1>1, <1>2, <1>3, <1>4

(* Less than a ring apart, two bytes are in different places.              *)
LEMMA PlacesApart ==
    ASSUME NEW r \in Nat, NEW x \in 0 .. PIPE_BUF_SIZE - 1, NEW y \in 0 .. PIPE_BUF_SIZE - 1,
           x # y
    PROVE  Place(r + x) # Place(r + y)
<1>1. PIPE_BUF_SIZE \in Nat
  BY PipeRing
<1>2. /\ r + x \in Nat /\ r + y \in Nat
      /\ \/ r + x < r + y /\ (r + y) - (r + x) < PIPE_BUF_SIZE
         \/ r + y < r + x /\ (r + x) - (r + y) < PIPE_BUF_SIZE
  BY <1>1
<1> QED BY <1>2, PipeRing

(* Where the bytes of a write go: n of them, behind the l that are there.  *)
WriteApart(r, l, n) ==
    /\ \A i, k \in 0 .. n - 1 : i # k => Place(r + (l + i)) # Place(r + (l + k))
    /\ \A i \in 0 .. n - 1, k \in 1 .. l : Place(r + (l + i)) # Place(r + (k - 1))
    /\ \A k \in 1 .. l + n : k \notin 1 .. l =>
          \E i \in 0 .. n - 1 : /\ i \in 0 .. n /\ i + 1 \in 1 .. n
                                /\ k = l + (i + 1) /\ k - 1 = l + i

(* A write that fits touches no byte that is still to be read.             *)
LEMMA WritePlaces ==
    ASSUME NEW r \in Nat, NEW l \in Nat, NEW n \in Nat, l + n <= PIPE_BUF_SIZE
    PROVE  WriteApart(r, l, n)
<1>0. PIPE_BUF_SIZE \in Nat
  BY PipeRing
<1>1. ASSUME NEW i \in 0 .. n - 1, NEW k \in 0 .. n - 1, i # k
      PROVE  Place(r + (l + i)) # Place(r + (l + k))
  <2>1. /\ l + i \in 0 .. PIPE_BUF_SIZE - 1 /\ l + k \in 0 .. PIPE_BUF_SIZE - 1
        /\ l + i # l + k
    BY <1>0, <1>1
  <2> QED BY <2>1, PlacesApart
<1>2. ASSUME NEW i \in 0 .. n - 1, NEW k \in 1 .. l
      PROVE  Place(r + (l + i)) # Place(r + (k - 1))
  <2>1. /\ l + i \in 0 .. PIPE_BUF_SIZE - 1 /\ k - 1 \in 0 .. PIPE_BUF_SIZE - 1
        /\ l + i # k - 1
    BY <1>0
  <2> QED BY <2>1, PlacesApart
<1>3. ASSUME NEW k \in 1 .. l + n, k \notin 1 .. l
      PROVE  \E i \in 0 .. n - 1 : /\ i \in 0 .. n /\ i + 1 \in 1 .. n
                                   /\ k = l + (i + 1) /\ k - 1 = l + i
  <2> WITNESS k - l - 1 \in 0 .. n - 1
  <2> QED BY <1>3
<1> QED BY <1>1, <1>2, <1>3 DEF WriteApart

PipeBuffer ==
    [buf : [Places -> Nat], write_pos : Places, read_pos : Places,
     len : 0 .. PIPE_BUF_SIZE, read_refs : {1}, write_refs : {1},
     waiter : PipeProcs \cup {0}]

(* The ring pb holds the bytes q. *)
Carries(pb, q) ==
    /\ pb \in PipeBuffer /\ q \in Seq(Nat) /\ Len(q) = pb.len
    /\ pb.write_pos = Place(pb.read_pos + pb.len)
    /\ \A k \in 1 .. pb.len : pb.buf[Place(pb.read_pos + (k - 1))] = q[k]

(* A concatenation has the elements of both sequences.                     *)
LEMMA Concatenated ==
    ASSUME NEW S, NEW q \in Seq(S), NEW r \in Seq(S)
    PROVE  /\ q \o r \in Seq(S) /\ Len(q \o r) = Len(q) + Len(r)
           /\ \A k \in 1 .. Len(q) : (q \o r)[k] = q[k]
           /\ \A k \in 1 .. Len(r) : (q \o r)[Len(q) + k] = r[k]
           /\ r = <<>> => q \o r = q
  OBVIOUS

(* The bytes of two writes in a row are appended as one.                   *)
LEMMA ConcatAssoc ==
    ASSUME NEW q \in Seq(Nat), NEW r \in Seq(Nat), NEW s \in Seq(Nat)
    PROVE  (q \o r) \o s = q \o (r \o s)
  OBVIOUS

(* The first elements of a sequence.                                       *)
LEMMA Prefixed ==
    ASSUME NEW S, NEW q \in Seq(S), NEW n \in 0 .. Len(q)
    PROVE  /\ SubSeq(q, 1, n) \in Seq(S) /\ Len(SubSeq(q, 1, n)) = n
           /\ \A k \in 1 .. n : SubSeq(q, 1, n)[k] = q[k]
  OBVIOUS

(* A sequence without its first elements.                                  *)
LEMMA Dropped ==
    ASSUME NEW S, NEW q \in Seq(S), NEW n \in 0 .. Len(q)
    PROVE  /\ SubSeq(q, n + 1, Len(q)) \in Seq(S)
           /\ Len(SubSeq(q, n + 1, Len(q))) = Len(q) - n
           /\ \A k \in 1 .. Len(q) - n : SubSeq(q, n + 1, Len(q))[k] = q[n + k]
  OBVIOUS

(* The bytes of two reads in a row are dropped as one.                     *)
LEMMA DroppedTwice ==
    ASSUME NEW S, NEW q \in Seq(S), NEW a \in 0 .. Len(q), NEW b \in 0 .. Len(q) - a
    PROVE  LET r == SubSeq(q, a + 1, Len(q))
           IN  SubSeq(r, b + 1, Len(r)) = SubSeq(q, (a + b) + 1, Len(q))
  OBVIOUS

(* write_bytes appends to the queue what fits.                             *)
LEMMA BytesWritten ==
    ASSUME NEW pb, NEW q, Carries(pb, q), NEW data \in Seq(Nat)
    PROVE  LET n == WriteLen(pb, data)
               w == write_bytes(pb, data)
           IN  /\ n \in 0 .. Len(data) /\ Carries(w, q \o SubSeq(data, 1, n))
               /\ w.waiter = pb.waiter /\ w.len = pb.len + n
<1> DEFINE n == WriteLen(pb, data)
<1> DEFINE s == SubSeq(data, 1, n)
<1> DEFINE rp == pb.read_pos
<1> DEFINE ln == pb.len
<1> DEFINE at(i) == (pb.write_pos + i) % PIPE_BUF_SIZE
<1>1. /\ pb \in PipeBuffer /\ q \in Seq(Nat) /\ Len(q) = ln /\ pb.write_pos = Place(rp + ln)
      /\ \A k \in 1 .. ln : pb.buf[Place(rp + (k - 1))] = q[k]
  BY DEF Carries
<1>0. PIPE_BUF_SIZE \in Nat \ {0}
  BY PipeRing
<1>2. rp \in Nat /\ ln \in 0 .. PIPE_BUF_SIZE /\ pb.buf \in [Places -> Nat] /\ rp \in Places
  BY <1>0, <1>1 DEF PipeBuffer, Places
<1>3. /\ n \in 0 .. Len(data) /\ ln + n \in 0 .. PIPE_BUF_SIZE
      /\ n \in Nat /\ ln \in Nat /\ ln + n <= PIPE_BUF_SIZE
  <2>1. Len(data) \in Nat
    OBVIOUS
  <2> QED BY <1>0, <1>2, <2>1 DEF WriteLen, Smaller
<1>4. /\ s \in Seq(Nat) /\ Len(s) = n /\ \A k \in 1 .. n : s[k] = data[k]
  BY <1>3, Prefixed
<1>5. ASSUME NEW i \in 0 .. n PROVE at(i) = Place(rp + (ln + i)) /\ at(i) \in Places
  <2>1. Place(Place(rp + ln) + i) = Place((rp + ln) + i) /\ Place((rp + ln) + i) \in Places
    <3>1. rp + ln \in Nat /\ i \in Nat /\ (rp + ln) + i \in Nat
      BY <1>2, <1>3, SMTT(30)
    <3> QED BY <3>1, PipeRing
  <2>2. at(i) = Place(Place(rp + ln) + i)
    BY <1>1, Zenon DEF Place
  <2>3. (rp + ln) + i = rp + (ln + i)
    BY <1>2, <1>3
  <2> QED BY <2>1, <2>2, <2>3, Zenon
<1>a. WriteApart(rp, ln, n)
  <2>1. rp \in Nat /\ ln \in Nat /\ n \in Nat /\ ln + n <= PIPE_BUF_SIZE
    BY <1>2, <1>3
  <2> QED BY <2>1, WritePlaces
<1> HIDE DEF at, n
<1> DEFINE nb == [j \in Places |->
                    IF \E i \in 0 .. n - 1 : at(i) = j
                    THEN data[1 + CHOOSE i \in 0 .. n - 1 :
                                  at(i) = j /\ \A k \in i + 1 .. n - 1 : at(k) # j]
                    ELSE pb.buf[j]]
<1>6. ASSUME NEW i \in 0 .. n - 1 PROVE nb[at(i)] = data[i + 1]
  <2>1. \A k \in 0 .. n - 1 : k # i => at(k) # at(i)
    <3>1. \A k \in 0 .. n - 1 : at(k) = Place(rp + (ln + k))
      BY <1>3, <1>5
    <3> QED BY <1>a, <3>1 DEF WriteApart
  <2>2. at(i) \in Places
    BY <1>3, <1>5
  <2> DEFINE c == CHOOSE x \in 0 .. n - 1 :
                      at(x) = at(i) /\ \A k \in x + 1 .. n - 1 : at(k) # at(i)
  <2>3. c = i
    <3>1. \A k \in i + 1 .. n - 1 : at(k) # at(i)
      BY <1>3, <2>1
    <3>2. c \in 0 .. n - 1 /\ at(c) = at(i)
      BY <3>1, Zenon
    <3> QED BY <2>1, <3>2
  <2>4. nb[at(i)] = data[1 + c]
    BY <2>2, Zenon
  <2> HIDE DEF c, nb
  <2>5. 1 + i = i + 1
    BY <1>3
  <2> QED BY <2>3, <2>4, <2>5, Zenon
<1>7. ASSUME NEW k \in 1 .. ln PROVE nb[Place(rp + (k - 1))] = pb.buf[Place(rp + (k - 1))]
  <2>1. ASSUME NEW i \in 0 .. n - 1 PROVE at(i) # Place(rp + (k - 1))
    <3>1. at(i) = Place(rp + (ln + i))
      BY <1>3, <1>5
    <3> QED BY <1>a, <3>1, Zenon DEF WriteApart
  <2>2. Place(rp + (k - 1)) \in Places
    <3>1. rp + (k - 1) \in Nat
      BY <1>2
    <3> QED BY <3>1, PipeRing
  <2> QED BY <2>1, <2>2, Zenon
<1>8. nb \in [Places -> Nat]
  <2>1. ASSUME NEW j \in Places PROVE nb[j] \in Nat
    <3>1. CASE \E i \in 0 .. n - 1 : at(i) = j
      <4>1. PICK i \in 0 .. n - 1 : at(i) = j
        BY <3>1
      <4>2. nb[j] = data[i + 1]
        BY <1>6, <4>1
      <4> QED BY <1>3, <4>2, SMTT(30)
    <3>2. CASE ~\E i \in 0 .. n - 1 : at(i) = j
      <4>1. nb[j] = pb.buf[j]
        BY <3>2, Zenon
      <4> QED BY <1>2, <4>1
    <3> QED BY <3>1, <3>2
  <2>2. DOMAIN nb = Places /\ nb = [j \in DOMAIN nb |-> nb[j]]
    OBVIOUS
  <2> HIDE DEF nb
  <2> QED BY <2>1, <2>2
<1>9. write_bytes(pb, data) = [pb EXCEPT !.buf = nb, !.write_pos = at(n), !.len = ln + n]
  <2>1. DOMAIN pb.buf = Places
    BY <1>2
  <2> QED BY <2>1, <1>1 DEF write_bytes, at, n, PipeBuffer
<1> DEFINE w == [pb EXCEPT !.buf = nb, !.write_pos = at(n), !.len = ln + n]
<1>10. at(n) = Place(rp + (ln + n)) /\ at(n) \in Places
  BY <1>3, <1>5
<1> HIDE DEF nb
<1>11. /\ w \in PipeBuffer /\ w.buf = nb /\ w.write_pos = at(n) /\ w.len = ln + n
       /\ w.waiter = pb.waiter /\ w.read_pos = rp
  BY <1>1, <1>3, <1>8, <1>10 DEF PipeBuffer
<1> HIDE DEF s
<1>12. /\ q \o s \in Seq(Nat) /\ Len(q \o s) = ln + n
       /\ \A k \in 1 .. ln : (q \o s)[k] = q[k]
       /\ \A k \in 1 .. n : (q \o s)[ln + k] = s[k]
  <2>1. /\ q \o s \in Seq(Nat) /\ Len(q \o s) = Len(q) + Len(s)
        /\ \A k \in 1 .. Len(q) : (q \o s)[k] = q[k]
        /\ \A k \in 1 .. Len(s) : (q \o s)[Len(q) + k] = s[k]
    <3>1. q \in Seq(Nat) /\ s \in Seq(Nat)
      BY <1>1, <1>4
    <3> QED BY <3>1, Concatenated
  <2> QED BY <1>1, <1>4, <2>1, Zenon
<1>13. ASSUME NEW k \in 1 .. ln + n PROVE nb[Place(rp + (k - 1))] = (q \o s)[k]
  <2>1. CASE k \in 1 .. ln
    BY <1>1, <1>7, <1>12, <2>1
  <2>2. CASE k \notin 1 .. ln
    <3>1. PICK i \in 0 .. n - 1 : /\ i \in 0 .. n /\ i + 1 \in 1 .. n
                                  /\ k = ln + (i + 1) /\ k - 1 = ln + i
      BY <1>a, <2>2 DEF WriteApart
    <3>2. at(i) = Place(rp + (k - 1))
      BY <1>5, <3>1, Zenon
    <3>3. nb[at(i)] = data[i + 1]
      BY <1>6, Zenon
    <3> QED BY <1>4, <1>12, <3>1, <3>2, <3>3, Zenon
  <2> QED BY <2>1, <2>2
<1> HIDE DEF w
<1>14. Carries(w, q \o s)
  BY <1>10, <1>11, <1>12, <1>13 DEF Carries
<1> QED BY <1>3, <1>9, <1>11, <1>14 DEF w, s, n

(* read_bytes takes from the front of the queue.                           *)
LEMMA BytesRead ==
    ASSUME NEW pb, NEW q, Carries(pb, q), NEW want \in Nat
    PROVE  LET n == Smaller(want, pb.len)
               r == read_bytes(pb, want)
           IN  /\ n \in 0 .. Len(q) /\ Carries(r, SubSeq(q, n + 1, Len(q)))
               /\ r.waiter = pb.waiter /\ r.len = pb.len - n
<1> DEFINE n == Smaller(want, pb.len)
<1> DEFINE s == SubSeq(q, n + 1, Len(q))
<1> DEFINE rp == pb.read_pos
<1> DEFINE ln == pb.len
<1>0. PIPE_BUF_SIZE \in Nat \ {0}
  BY PipeRing
<1>1. /\ pb \in PipeBuffer /\ q \in Seq(Nat) /\ Len(q) = ln /\ pb.write_pos = Place(rp + ln)
      /\ \A k \in 1 .. ln : pb.buf[Place(rp + (k - 1))] = q[k]
  BY DEF Carries
<1>2. rp \in Nat /\ ln \in 0 .. PIPE_BUF_SIZE /\ ln \in Nat
  BY <1>0, <1>1 DEF PipeBuffer, Places
<1>3. n \in 0 .. ln /\ n \in Nat /\ ln - n \in 0 .. PIPE_BUF_SIZE /\ ln - n \in Nat
  BY <1>0, <1>2 DEF Smaller
<1>4. s \in Seq(Nat) /\ Len(s) = ln - n /\ \A k \in 1 .. ln - n : s[k] = q[n + k]
  <2>1. n \in 0 .. Len(q)
    BY <1>1, <1>3
  <2> HIDE DEF n
  <2> QED BY <1>1, <2>1, Dropped, SMTT(30)
<1>5. Place(rp + n) \in Places
  <2>1. rp + n \in Nat
    BY <1>2, <1>3
  <2> QED BY <2>1, PipeRing
<1>6. read_bytes(pb, want) = [pb EXCEPT !.read_pos = Place(rp + n), !.len = ln - n]
  BY <1>1 DEF read_bytes, Place, PipeBuffer
<1> HIDE DEF n, s
<1> DEFINE r == [pb EXCEPT !.read_pos = Place(rp + n), !.len = ln - n]
<1>7. /\ r \in PipeBuffer /\ r.read_pos = Place(rp + n) /\ r.len = ln - n /\ r.buf = pb.buf
      /\ r.write_pos = pb.write_pos /\ r.waiter = pb.waiter
  BY <1>1, <1>3, <1>5 DEF PipeBuffer
<1>8. \A k \in Nat : Place(Place(rp + n) + k) = Place(rp + (n + k))
  <2>1. ASSUME NEW k \in Nat PROVE Place(Place(rp + n) + k) = Place(rp + (n + k))
    <3>1. rp + n \in Nat /\ (rp + n) + k = rp + (n + k)
      BY <1>2, <1>3
    <3> QED BY <3>1, PipeRing
  <2> QED BY <2>1
<1>9. pb.write_pos = Place(Place(rp + n) + (ln - n))
  <2>1. n + (ln - n) = ln
    BY <1>2, <1>3
  <2> QED BY <1>1, <1>3, <1>8, <2>1, SMTT(30)
<1>10. ASSUME NEW k \in 1 .. ln - n PROVE pb.buf[Place(Place(rp + n) + (k - 1))] = s[k]
  <2>1. k - 1 \in Nat /\ n + (k - 1) = (n + k) - 1 /\ n + k \in 1 .. ln
    BY <1>2, <1>3
  <2>2. Place(Place(rp + n) + (k - 1)) = Place(rp + ((n + k) - 1))
    BY <1>8, <2>1
  <2> QED BY <1>1, <1>4, <2>1, <2>2
<1> HIDE DEF r
<1>11. Carries(r, s)
  BY <1>4, <1>7, <1>9, <1>10 DEF Carries
<1> QED BY <1>1, <1>3, <1>6, <1>7, <1>11 DEF r, s, n

-----------------------------------------------------------------------------
(* Wake-ups *)

Reader ==
    [st : {"Ready", "Sleeping", "Absent"}, pending_wakeup : BOOLEAN,
     reading : PipeIds \cup {-1}, want : Seq(Nat \ {0}), alone : BOOLEAN]

(* From R to W some readers were woken, and nothing else happened to them. *)
Woken(R, W) ==
    /\ W \in [PipeProcs -> Reader]
    /\ \A q \in PipeProcs :
          /\ W[q].reading = R[q].reading /\ W[q].want = R[q].want /\ W[q].alone = R[q].alone
          /\ W[q].st = "Absent" <=> R[q].st = "Absent"
          /\ W[q].st = "Sleeping" => R[q].st = "Sleeping"

(* wake_reader leaves the registered thread awake and does nothing else.   *)
LEMMA WakeReader ==
    ASSUME NEW R \in [PipeProcs -> Reader], NEW pb, NEW p
    PROVE  /\ Woken(R, wake_reader(R, pb, p))
           /\ pb.waiter \in PipeProcs \ {p} =>
                 wake_reader(R, pb, p)[pb.waiter].st # "Sleeping"
<1> DEFINE W == wake_reader(R, pb, p)
<1>1. ASSUME NEW q \in PipeProcs
      PROVE  /\ W[q] \in Reader
             /\ W[q].reading = R[q].reading /\ W[q].want = R[q].want /\ W[q].alone = R[q].alone
             /\ W[q].st = "Absent" <=> R[q].st = "Absent"
             /\ W[q].st = "Sleeping" => R[q].st = "Sleeping"
             /\ q = pb.waiter /\ q # p => W[q].st # "Sleeping"
  <2>1. R[q] \in Reader
    OBVIOUS
  <2>2. W[q] = IF q # pb.waiter \/ q = p THEN R[q]
               ELSE IF R[q].st = "Sleeping" THEN [R[q] EXCEPT !.st = "Ready"]
               ELSE [R[q] EXCEPT !.pending_wakeup = TRUE]
    BY DEF wake_reader
  <2> HIDE DEF W
  <2> QED BY <2>1, <2>2, ZenonT(30) DEF Reader
<1>2. W \in [PipeProcs -> Reader]
  <2>1. W = [q \in PipeProcs |-> W[q]]
    BY DEF wake_reader
  <2> HIDE DEF W
  <2> QED BY <1>1, <2>1
<1> HIDE DEF W
<1>3. Woken(R, W)
  BY <1>1, <1>2 DEF Woken
<1> QED BY <1>1, <1>3 DEF W

-----------------------------------------------------------------------------
(* Writing *)

(* What writev has done so far to the ring pb of the bytes q and to the    *)
(* threads R, when the caller is thread p.                                 *)
WrittenSoFar(w, pb, q, R, p) ==
    /\ w \in [pb : PipeBuffer, readers : [PipeProcs -> Reader], sent : Seq(Nat), go : BOOLEAN]
    /\ Carries(w.pb, q \o w.sent) /\ w.pb.waiter = pb.waiter
    /\ Woken(R, w.readers)
    /\ w.sent # <<>> /\ pb.waiter \in PipeProcs \ {p} =>
          w.readers[pb.waiter].st # "Sleeping"

(* One more buffer of writev.                                              *)
LEMMA WriteOne ==
    ASSUME NEW w, NEW pb, NEW q \in Seq(Nat), NEW R, NEW p, WrittenSoFar(w, pb, q, R, p),
           NEW data \in Seq(Nat)
    PROVE  WrittenSoFar(WriteNext(w, data, p), pb, q, R, p)
<1> DEFINE v == write_bytes(w.pb, data)
<1> DEFINE n == WriteLen(w.pb, data)
<1> DEFINE s == SubSeq(data, 1, n)
<1>0. /\ w \in [pb : PipeBuffer, readers : [PipeProcs -> Reader], sent : Seq(Nat), go : BOOLEAN]
      /\ Carries(w.pb, q \o w.sent) /\ w.pb.waiter = pb.waiter
      /\ Woken(R, w.readers)
      /\ w.sent # <<>> /\ pb.waiter \in PipeProcs \ {p} =>
            w.readers[pb.waiter].st # "Sleeping"
  BY DEF WrittenSoFar
<1>1. CASE ~w.go
  <2>1. WriteNext(w, data, p) = w
    BY <1>1 DEF WriteNext
  <2> QED BY <2>1, Zenon
<1>2. CASE w.go /\ (w.pb.read_refs = 0 \/ w.pb.len = PIPE_BUF_SIZE)
  <2>1. WriteNext(w, data, p) = [w EXCEPT !.go = FALSE]
    BY <1>2 DEF WriteNext, pipe_write
  <2> DEFINE x == [w EXCEPT !.go = FALSE]
  <2>2. /\ x \in [pb : PipeBuffer, readers : [PipeProcs -> Reader], sent : Seq(Nat), go : BOOLEAN]
        /\ x.pb = w.pb /\ x.readers = w.readers /\ x.sent = w.sent
    BY <1>0
  <2> HIDE DEF x
  <2>3. WrittenSoFar(x, pb, q, R, p)
    BY <1>0, <2>2, Zenon DEF WrittenSoFar
  <2> QED BY <2>1, <2>3 DEF x
<1>3. CASE w.go /\ ~(w.pb.read_refs = 0 \/ w.pb.len = PIPE_BUF_SIZE)
  <2> DEFINE W == wake_reader(w.readers, v, p)
  <2> DEFINE x == [pb |-> v, readers |-> W, sent |-> w.sent \o s, go |-> n = Len(data)]
  <2>1. WriteNext(w, data, p) = x
    BY <1>3 DEF WriteNext, pipe_write, WakeAfterWrite, WriteLen
  <2>2. /\ n \in 0 .. Len(data) /\ Carries(v, (q \o w.sent) \o s)
        /\ v.waiter = w.pb.waiter
    BY <1>0, BytesWritten
  <2>3. s \in Seq(Nat)
    <3> HIDE DEF n
    <3> QED BY <2>2, Prefixed
  <2>4. /\ Woken(w.readers, W)
        /\ v.waiter \in PipeProcs \ {p} => W[v.waiter].st # "Sleeping"
    BY <1>0, WakeReader
  <2> HIDE DEF v, n, s, W
  <2>5. w.sent \in Seq(Nat) /\ w.sent \o s \in Seq(Nat)
    BY <1>0, <2>3, Concatenated
  <2>6. (q \o w.sent) \o s = q \o (w.sent \o s)
    BY <2>3, <2>5, ConcatAssoc, ZenonT(30)
  <2>7. Woken(R, W) /\ W \in [PipeProcs -> Reader]
    BY <1>0, <2>4 DEF Woken
  <2>8. v \in PipeBuffer
    BY <2>2 DEF Carries
  <2>9. /\ x \in [pb : PipeBuffer, readers : [PipeProcs -> Reader], sent : Seq(Nat), go : BOOLEAN]
        /\ x.pb = v /\ x.readers = W /\ x.sent = w.sent \o s
    BY <2>5, <2>7, <2>8
  <2> HIDE DEF x
  <2>10. WrittenSoFar(x, pb, q, R, p)
    BY <1>0, <2>2, <2>4, <2>6, <2>7, <2>9 DEF WrittenSoFar
  <2> QED BY <2>1, <2>10
<1> QED BY <1>1, <1>2, <1>3

(* writev appends what it sent, and has woken the registered reader.       *)
LEMMA WriteEvery ==
    ASSUME NEW pb, NEW q, Carries(pb, q), NEW R \in [PipeProcs -> Reader], NEW p,
           NEW iov \in PipeData
    PROVE  WrittenSoFar(WriteAllOf([pb |-> pb, readers |-> R, sent |-> <<>>, go |-> TRUE], iov, p),
                   pb, q, R, p)
<1> DEFINE w == [pb |-> pb, readers |-> R, sent |-> <<>>, go |-> TRUE]
<1>1. q \in Seq(Nat) /\ pb \in PipeBuffer
  BY DEF Carries
<1>2. <<>> \in Seq(Nat) /\ q \o <<>> = q
  BY <1>1, EmptySeq, Concatenated
<1>3. WrittenSoFar(w, pb, q, R, p)
  <2>1. Woken(R, R)
    BY DEF Woken
  <2>2. /\ w \in [pb : PipeBuffer, readers : [PipeProcs -> Reader], sent : Seq(Nat), go : BOOLEAN]
        /\ w.pb = pb /\ w.readers = R /\ w.sent = <<>>
    BY <1>1, <1>2
  <2> HIDE DEF w
  <2> QED BY <1>2, <2>1, <2>2, Zenon DEF WrittenSoFar
<1> HIDE DEF w
<1>4. iov[1] \in Seq(Nat) /\ (Len(iov) # 1 => iov[2] \in Seq(Nat))
  BY PipeConstants
<1>5. WrittenSoFar(WriteNext(w, iov[1], p), pb, q, R, p)
  BY <1>1, <1>3, <1>4, WriteOne
<1>6. Len(iov) # 1 => WrittenSoFar(WriteNext(WriteNext(w, iov[1], p), iov[2], p), pb, q, R, p)
  BY <1>1, <1>4, <1>5, WriteOne
<1>7. WrittenSoFar(WriteAllOf(w, iov, p), pb, q, R, p)
  BY <1>5, <1>6, Zenon DEF WriteAllOf
<1> QED BY <1>7 DEF w

-----------------------------------------------------------------------------
(* Reading *)

(* What readv has taken so far from the ring pb of the bytes q, having     *)
(* gone through m of its buffers.                                          *)
TakenSoFar(a, pb, q, m) ==
    /\ a \in [pb : PipeBuffer, got : 0 .. Len(q), rest : Seq(Nat \ {0}), short : BOOLEAN]
    /\ Carries(a.pb, SubSeq(q, a.got + 1, Len(q))) /\ a.pb.waiter = pb.waiter
    /\ Len(a.rest) \in 0 .. m
    /\ a.rest # <<>> => a.pb.len = 0 /\ ~a.short
    /\ pb.len = 0 => a.pb.len = 0 /\ ~a.short /\ Len(a.rest) = m

(* One more buffer of readv.                                               *)
LEMMA ReadOne ==
    ASSUME NEW a, NEW pb, NEW q \in Seq(Nat), NEW m \in Nat, TakenSoFar(a, pb, q, m),
           NEW want \in Nat \ {0}
    PROVE  TakenSoFar(ReadNext(a, want), pb, q, m + 1)
<1> DEFINE n == Smaller(want, a.pb.len)
<1> DEFINE v == read_bytes(a.pb, want)
<1> DEFINE s == SubSeq(q, a.got + 1, Len(q))
<1>0. /\ a \in [pb : PipeBuffer, got : 0 .. Len(q), rest : Seq(Nat \ {0}), short : BOOLEAN]
      /\ Carries(a.pb, s) /\ a.pb.waiter = pb.waiter
      /\ Len(a.rest) \in 0 .. m
      /\ a.rest # <<>> => a.pb.len = 0 /\ ~a.short
      /\ pb.len = 0 => a.pb.len = 0 /\ ~a.short /\ Len(a.rest) = m
  BY DEF TakenSoFar
<1>1. CASE a.short
  <2>1. ReadNext(a, want) = a
    BY <1>1 DEF ReadNext
  <2>2. Len(a.rest) \in 0 .. m + 1
    BY <1>0
  <2>3. TakenSoFar(a, pb, q, m + 1)
    BY <1>0, <1>1, <2>2, Zenon DEF TakenSoFar
  <2> QED BY <2>1, <2>3
<1>2. CASE ~a.short /\ a.pb.len = 0
  <2> DEFINE x == [a EXCEPT !.rest = Append(a.rest, want)]
  <2>1. ReadNext(a, want) = x
    BY <1>2 DEF ReadNext
  <2>2. /\ Append(a.rest, want) \in Seq(Nat \ {0})
        /\ Len(Append(a.rest, want)) = Len(a.rest) + 1
    BY <1>0
  <2>3. /\ x \in [pb : PipeBuffer, got : 0 .. Len(q), rest : Seq(Nat \ {0}), short : BOOLEAN]
        /\ x.pb = a.pb /\ x.got = a.got /\ x.short = a.short /\ x.rest = Append(a.rest, want)
    BY <1>0, <2>2
  <2>4. Len(x.rest) \in 0 .. m + 1 /\ (pb.len = 0 => Len(x.rest) = m + 1)
    BY <1>0, <2>2, <2>3
  <2> HIDE DEF x
  <2>5. TakenSoFar(x, pb, q, m + 1)
    BY <1>0, <1>2, <2>3, <2>4, Zenon DEF TakenSoFar
  <2> QED BY <2>1, <2>5
<1>3. CASE ~a.short /\ a.pb.len # 0
  <2> DEFINE x == [pb |-> v, got |-> a.got + n, rest |-> <<>>, short |-> a.pb.len < want]
  <2>1. ReadNext(a, want) = x
    BY <1>3 DEF ReadNext
  <2>2. /\ n \in 0 .. Len(s) /\ Carries(v, SubSeq(s, n + 1, Len(s)))
        /\ v.waiter = a.pb.waiter
    BY <1>0, BytesRead
  <2>3. a.got \in 0 .. Len(q) /\ Len(s) = Len(q) - a.got
    BY <1>0, Dropped
  <2>4. v \in PipeBuffer
    BY <2>2 DEF Carries
  <2> HIDE DEF n, v, s
  <2>5. n \in 0 .. Len(q) - a.got /\ a.got + n \in 0 .. Len(q)
    <3>1. Len(q) \in Nat
      OBVIOUS
    <3> QED BY <2>2, <2>3, <3>1
  <2>6. SubSeq(s, n + 1, Len(s)) = SubSeq(q, (a.got + n) + 1, Len(q))
    BY <2>3, <2>5, DroppedTwice DEF s
  <2>7. <<>> \in Seq(Nat \ {0}) /\ Len(<<>>) = 0 /\ 0 \in 0 .. m + 1
    BY EmptySeq
  <2>8. (a.pb.len < want) \in BOOLEAN
    OBVIOUS
  <2>9. /\ x \in [pb : PipeBuffer, got : 0 .. Len(q), rest : Seq(Nat \ {0}), short : BOOLEAN]
        /\ x.pb = v /\ x.got = a.got + n /\ x.rest = <<>>
    BY <2>4, <2>5, <2>7, <2>8
  <2> HIDE DEF x
  <2>10. TakenSoFar(x, pb, q, m + 1)
    BY <1>0, <1>3, <2>2, <2>6, <2>7, <2>9, Zenon DEF TakenSoFar
  <2> QED BY <2>1, <2>10
<1> QED BY <1>1, <1>2, <1>3

(* The lengths a call, or what is left of it, waits to fill.               *)
Lengths == {iov \in Seq(Nat \ {0}) : Len(iov) \in {1, 2}}

(* readv drops what it got, and has buffers left on an empty ring only.    *)
LEMMA ReadEvery ==
    ASSUME NEW pb, NEW q, Carries(pb, q), NEW iov \in Lengths
    PROVE  LET r == ReadAll(pb, iov)
           IN  /\ r.got \in 0 .. Len(q) /\ Carries(r.pb, SubSeq(q, r.got + 1, Len(q)))
               /\ r.rest # <<>> => r.rest \in Lengths /\ r.pb.len = 0
               /\ pb.len = 0 => r.rest # <<>>
<1> DEFINE a == [pb |-> pb, got |-> 0, rest |-> <<>>, short |-> FALSE]
<1>1. q \in Seq(Nat) /\ pb \in PipeBuffer /\ Len(q) \in Nat
  BY DEF Carries
<1>2. TakenSoFar(a, pb, q, 0)
  <2>1. /\ SubSeq(q, 0 + 1, Len(q)) = q /\ 0 \in 0 .. Len(q)
    BY <1>1
  <2>2. <<>> \in Seq(Nat \ {0}) /\ Len(<<>>) = 0 /\ 0 \in 0 .. 0
    BY EmptySeq
  <2>3. /\ a \in [pb : PipeBuffer, got : 0 .. Len(q), rest : Seq(Nat \ {0}), short : BOOLEAN]
        /\ a.pb = pb /\ a.got = 0 /\ a.rest = <<>> /\ ~a.short
    BY <1>1, <2>1, <2>2
  <2> HIDE DEF a
  <2> QED BY <2>1, <2>2, <2>3, Zenon DEF TakenSoFar
<1>3. iov[1] \in Nat \ {0} /\ (Len(iov) # 1 => iov[2] \in Nat \ {0})
  BY DEF Lengths
<1> HIDE DEF a
<1>4. TakenSoFar(ReadNext(a, iov[1]), pb, q, 1)
  <2>1. 0 \in Nat /\ 0 + 1 = 1
    OBVIOUS
  <2>2. TakenSoFar(ReadNext(a, iov[1]), pb, q, 0 + 1)
    BY <1>1, <1>2, <1>3, <2>1, ReadOne, Zenon
  <2> QED BY <2>1, <2>2
<1>5. Len(iov) # 1 => TakenSoFar(ReadNext(ReadNext(a, iov[1]), iov[2]), pb, q, 2)
  <2>1. 1 \in Nat /\ 1 + 1 = 2
    OBVIOUS
  <2>2. Len(iov) # 1 => TakenSoFar(ReadNext(ReadNext(a, iov[1]), iov[2]), pb, q, 1 + 1)
    BY <1>1, <1>3, <1>4, <2>1, ReadOne, Zenon
  <2> QED BY <2>1, <2>2
<1> DEFINE r == ReadAll(pb, iov)
<1>6. \E m \in {1, 2} : TakenSoFar(r, pb, q, m)
  BY <1>4, <1>5 DEF ReadAll, a
<1>7. PICK m \in {1, 2} : TakenSoFar(r, pb, q, m)
  BY <1>6
<1> HIDE DEF r
<1>8. r.rest # <<>> => r.rest \in Lengths
  <2>1. /\ r \in [pb : PipeBuffer, got : 0 .. Len(q), rest : Seq(Nat \ {0}), short : BOOLEAN]
        /\ Len(r.rest) \in 0 .. m
    BY <1>7, Zenon DEF TakenSoFar
  <2>2. r.rest \in Seq(Nat \ {0}) /\ Len(r.rest) \in Nat
    BY <2>1
  <2> DEFINE l == Len(r.rest)
  <2>3. l \in 0 .. m /\ (l = 0 => r.rest = <<>>)
    BY <2>1, <2>2
  <2> HIDE DEF l
  <2>4. l \in {0, 1, 2}
    BY <2>3
  <2> QED BY <2>2, <2>3, <2>4 DEF Lengths, l
<1>9. pb.len = 0 => r.rest # <<>>
  BY <1>7 DEF TakenSoFar
<1>10. /\ r.got \in 0 .. Len(q) /\ Carries(r.pb, SubSeq(q, r.got + 1, Len(q)))
       /\ r.rest # <<>> => r.pb.len = 0
  BY <1>7 DEF TakenSoFar
<1> QED BY <1>8, <1>9, <1>10 DEF r

-----------------------------------------------------------------------------
(* The invariant *)

Handles == [id : PipeIds, pipe_write : BOOLEAN] \cup {NoFd}

PipeRings(P, Q) ==
    /\ P \in [PipeIds -> PipeBuffer \cup {NoPipe}] /\ Q \in [PipeIds -> Seq(Nat)]
    /\ \A i \in PipeIds : P[i] # NoPipe => Carries(P[i], Q[i])

(* A thread inside a read waits for a pipe that is there, and only such a  *)
(* thread sleeps on it.                                                    *)
ReadersWait(P, R) ==
    /\ R \in [PipeProcs -> Reader]
    /\ \A p \in PipeProcs :
          /\ R[p].reading # -1 =>
                /\ R[p].reading \in PipeIds /\ P[R[p].reading] # NoPipe
                /\ R[p].want \in Lengths /\ R[p].st # "Absent"
          /\ R[p].st = "Sleeping" => R[p].reading # -1

(* The lone reader of a pipe sleeps on an empty ring and is registered.    *)
LoneWait(P, R) ==
    \A p \in PipeProcs : R[p].st = "Sleeping" /\ R[p].alone =>
        P[R[p].reading].len = 0 /\ P[R[p].reading].waiter = p

PipeIInv ==
    /\ PipeRings(pipes, queue)
    /\ pfds \in [PipeProcs -> [Fds -> Handles]]
    /\ ReadersWait(pipes, readers)
    /\ LoneWait(pipes, readers)

(* An entry of the table that carries bytes is not empty.                  *)
LEMMA PipeThere ==
    /\ NoPipe \notin PipeBuffer /\ \A pb, q : Carries(pb, q) => pb # NoPipe
    /\ -1 \notin PipeIds
<1>1. NoPipe.len = -1 /\ \A pb \in PipeBuffer : pb.len # -1
  BY PipeRing DEF NoPipe, PipeBuffer
<1>2. -1 \notin PipeIds
  BY DEF PipeIds
<1> QED BY <1>1, <1>2 DEF Carries

(* One entry of the table is replaced. *)
LEMMA RingChanged ==
    ASSUME NEW P, NEW Q, PipeRings(P, Q), NEW i \in PipeIds, NEW pb, NEW s, Carries(pb, s)
    PROVE  PipeRings([P EXCEPT ![i] = pb], [Q EXCEPT ![i] = s])
<1>1. pb \in PipeBuffer /\ s \in Seq(Nat)
  BY DEF Carries
<1> QED BY <1>1 DEF PipeRings

(* One descriptor is set. *)
LEMMA HandleChanged ==
    ASSUME NEW T \in [PipeProcs -> [Fds -> Handles]], NEW p, NEW f, NEW h \in Handles
    PROVE  [T EXCEPT ![p][f] = h] \in [PipeProcs -> [Fds -> Handles]]
  OBVIOUS

(* The invariant holds in the empty table.                                 *)
LEMMA PipeInitInv == PipeInit => PipeIInv
<1> SUFFICES ASSUME PipeInit PROVE PipeIInv
  OBVIOUS
<1>1. PipeRings(pipes, queue)
  BY EmptySeq DEF PipeInit, PipeRings
<1>2. pfds \in [PipeProcs -> [Fds -> Handles]]
  BY DEF PipeInit, Handles
<1>3. \A p \in PipeProcs : readers[p] \in Reader /\ readers[p].reading = -1
                           /\ readers[p].st # "Sleeping"
  BY EmptySeq DEF PipeInit, Thread, Reader
<1>4. readers \in [PipeProcs -> Reader]
  BY <1>3 DEF PipeInit
<1> QED BY <1>1, <1>2, <1>3, <1>4 DEF PipeIInv, ReadersWait, LoneWait

(* pipe_read_blocking as far as it goes without sleeping, over a table P   *)
(* in which the registration on pipe i may have been cleared.              *)
LEMMA ReadTurnSafe ==
    ASSUME NEW p \in PipeProcs, NEW P, NEW i \in PipeIds, NEW iov \in Lengths,
           PipeRings(P, queue), ReadersWait(P, readers),
           readers[p].st = "Ready",
           \A q \in PipeProcs : readers[q].st = "Sleeping" /\ readers[q].alone =>
               /\ P[readers[q].reading].len = 0
               /\ readers[q].reading # i => P[readers[q].reading].waiter = q,
           ReadTurn(p, P, i, iov)
    PROVE  /\ PipeRings(pipes', queue') /\ ReadersWait(pipes', readers')
           /\ LoneWait(pipes', readers')
<1> DEFINE back == [readers EXCEPT ![p] = [@ EXCEPT !.reading = -1, !.want = <<>>,
                                                    !.alone = FALSE]]
<1> DEFINE r == ReadAll(P[i], iov)
<1> DEFINE s == SubSeq(queue[i], r.got + 1, Len(queue[i]))
<1>0. readers \in [PipeProcs -> Reader]
  BY DEF ReadersWait
<1>1. /\ back \in [PipeProcs -> Reader] /\ back[p].st = "Ready" /\ back[p].reading = -1
      /\ \A q \in PipeProcs \ {p} : back[q] = readers[q]
  BY <1>0, EmptySeq DEF Reader
<1> HIDE DEF back
<1>2. CASE P[i] = NoPipe
  <2>1. pipes' = P /\ readers' = back /\ queue' = queue
    BY <1>2 DEF ReadTurn, back
  <2>2. ReadersWait(P, back)
    BY <1>1 DEF ReadersWait
  <2>3. LoneWait(P, back)
    BY <1>1, <1>2 DEF ReadersWait, LoneWait
  <2> QED BY <2>1, <2>2, <2>3
<1>3. CASE P[i] # NoPipe
  <2>1. Carries(P[i], queue[i])
    BY <1>3 DEF PipeRings
  <2>2. /\ Carries(r.pb, s)
        /\ r.rest # <<>> => r.rest \in Lengths /\ r.pb.len = 0
        /\ P[i].len = 0 => r.rest # <<>>
    BY <2>1, ReadEvery
  <2>3. /\ queue' = [queue EXCEPT ![i] = s]
        /\ IF r.rest = <<>> \/ P[i].write_refs = 0
           THEN pipes' = [P EXCEPT ![i] = r.pb] /\ readers' = back
           ELSE /\ pipes' = [P EXCEPT ![i] = [r.pb EXCEPT !.waiter = p]]
                /\ readers' =
                      [q \in PipeProcs |->
                          IF q = p
                          THEN [readers[p] EXCEPT
                                   !.st = IF readers[p].pending_wakeup THEN "Ready"
                                          ELSE "Sleeping",
                                   !.pending_wakeup = FALSE, !.reading = i,
                                   !.want = r.rest, !.alone = TRUE]
                          ELSE [readers[q] EXCEPT !.alone = @ /\ readers[q].reading # i]]
    BY <1>3 DEF ReadTurn, back
  <2> HIDE DEF r, s
  <2>4. P \in [PipeIds -> PipeBuffer \cup {NoPipe}] /\ P[i].write_refs = 1
    BY <2>1 DEF PipeRings, Carries, PipeBuffer
  <2>5. CASE r.rest = <<>>
    <3>1. pipes' = [P EXCEPT ![i] = r.pb] /\ readers' = back
      BY <2>3, <2>5
    <3>2. PipeRings(pipes', queue')
      BY <2>2, <2>3, <3>1, RingChanged
    <3>3. \A j \in PipeIds : /\ P[j] # NoPipe => pipes'[j] # NoPipe
                             /\ j # i => pipes'[j] = P[j]
      BY <2>2, <2>4, <3>1, PipeThere
    <3>4. ReadersWait(pipes', readers')
      BY <1>1, <3>1, <3>3 DEF ReadersWait
    <3>5. LoneWait(pipes', readers')
      <4>1. ASSUME NEW q \in PipeProcs, readers'[q].st = "Sleeping", readers'[q].alone
            PROVE  pipes'[readers'[q].reading].len = 0 /\ pipes'[readers'[q].reading].waiter = q
        <5>1. q # p /\ readers'[q] = readers[q]
          BY <1>1, <3>1, <4>1
        <5>2. readers[q].reading \in PipeIds /\ P[readers[q].reading].len = 0
          BY <4>1, <5>1 DEF ReadersWait
        <5>3. readers[q].reading # i
          BY <2>2, <2>5, <5>2
        <5> QED BY <3>3, <4>1, <5>1, <5>2, <5>3
      <4> QED BY <4>1 DEF LoneWait
    <3> QED BY <3>2, <3>4, <3>5
  <2>6. CASE r.rest # <<>>
    <3> DEFINE b == [r.pb EXCEPT !.waiter = p]
    <3>1. Carries(b, s) /\ b.len = 0 /\ b.waiter = p
      BY <2>2, <2>6 DEF Carries, PipeBuffer
    <3>2. pipes' = [P EXCEPT ![i] = b]
      BY <2>3, <2>4, <2>6
    <3> HIDE DEF b
    <3>3. PipeRings(pipes', queue')
      BY <2>3, <3>1, <3>2, RingChanged
    <3>4. /\ pipes'[i] = b
          /\ \A j \in PipeIds : /\ P[j] # NoPipe => pipes'[j] # NoPipe
                                /\ j # i => pipes'[j] = P[j]
      BY <2>4, <3>1, <3>2, PipeThere
    <3>5. ASSUME NEW q \in PipeProcs \ {p}
          PROVE  /\ readers'[q] \in Reader /\ readers'[q].st = readers[q].st
                 /\ readers'[q].reading = readers[q].reading
                 /\ readers'[q].want = readers[q].want
                 /\ readers'[q].alone => readers[q].alone /\ readers[q].reading # i
      <4>1. readers[q] \in Reader
        BY <1>0
      <4>2. readers'[q] = [readers[q] EXCEPT !.alone = @ /\ readers[q].reading # i]
        BY <2>3, <2>4, <2>6
      <4> QED BY <4>1, <4>2 DEF Reader
    <3>6. /\ readers'[p] \in Reader /\ readers'[p].reading = i
          /\ readers'[p].want = r.rest /\ readers'[p].st # "Absent"
      <4>1. readers[p] \in Reader /\ r.rest \in Seq(Nat \ {0})
        BY <1>0, <2>2, <2>6 DEF Lengths
      <4>2. readers'[p] = [readers[p] EXCEPT
                              !.st = IF readers[p].pending_wakeup THEN "Ready" ELSE "Sleeping",
                              !.pending_wakeup = FALSE, !.reading = i,
                              !.want = r.rest, !.alone = TRUE]
        BY <2>3, <2>4, <2>6
      <4> QED BY <4>1, <4>2 DEF Reader
    <3>7. readers' \in [PipeProcs -> Reader]
      <4>1. readers' = [q \in PipeProcs |-> readers'[q]]
        BY <2>3, <2>4, <2>6
      <4> QED BY <3>5, <3>6, <4>1
    <3>8. ReadersWait(pipes', readers')
      <4>1. ASSUME NEW q \in PipeProcs
            PROVE  /\ readers'[q].reading # -1 =>
                         /\ readers'[q].reading \in PipeIds
                         /\ pipes'[readers'[q].reading] # NoPipe
                         /\ readers'[q].want \in Lengths /\ readers'[q].st # "Absent"
                   /\ readers'[q].st = "Sleeping" => readers'[q].reading # -1
        <5>1. CASE q = p
          BY <1>3, <2>2, <2>6, <3>4, <3>6, <5>1, PipeThere
        <5>2. CASE q # p
          BY <3>4, <3>5, <5>2 DEF ReadersWait
        <5> QED BY <5>1, <5>2
      <4> QED BY <3>7, <4>1 DEF ReadersWait
    <3>9. LoneWait(pipes', readers')
      <4>1. ASSUME NEW q \in PipeProcs, readers'[q].st = "Sleeping", readers'[q].alone
            PROVE  pipes'[readers'[q].reading].len = 0 /\ pipes'[readers'[q].reading].waiter = q
        <5>1. CASE q = p
          BY <3>1, <3>4, <3>6, <5>1
        <5>2. CASE q # p
          <6>1. readers[q].reading \in PipeIds /\ readers[q].reading # i
            BY <3>5, <4>1, <5>2 DEF ReadersWait
          <6> QED BY <3>4, <3>5, <4>1, <5>2, <6>1
        <5> QED BY <5>1, <5>2
      <4> QED BY <4>1 DEF LoneWait
    <3> QED BY <3>3, <3>8, <3>9
  <2> QED BY <2>5, <2>6
<1> QED BY <1>2, <1>3

(* Each system call, wake-up and turn of a reader keeps the invariant.     *)
LEMMA PipeStep == PipeIInv /\ [PipeNext]_pipeVars => PipeIInv'
<1> SUFFICES ASSUME PipeIInv, [PipeNext]_pipeVars PROVE PipeIInv'
  OBVIOUS
<1>0. /\ PipeRings(pipes, queue) /\ pfds \in [PipeProcs -> [Fds -> Handles]]
      /\ ReadersWait(pipes, readers) /\ LoneWait(pipes, readers)
      /\ readers \in [PipeProcs -> Reader]
  BY DEF PipeIInv, ReadersWait
<1> SUFFICES /\ PipeRings(pipes', queue') /\ pfds' \in [PipeProcs -> [Fds -> Handles]]
             /\ ReadersWait(pipes', readers') /\ LoneWait(pipes', readers')
  BY DEF PipeIInv
<1>1. ASSUME NEW p \in PipeProcs, pipe2_syscall(p)
      PROVE  /\ PipeRings(pipes', queue') /\ pfds' \in [PipeProcs -> [Fds -> Handles]]
             /\ ReadersWait(pipes', readers') /\ LoneWait(pipes', readers')
  <2> DEFINE free == FreeFds(p)
  <2> DEFINE r == LowestFd(free)
  <2> DEFINE w == LowestFd(free \ {r})
  <2>1. PICK i \in PipeIds :
           /\ alloc_pipe(i)
           /\ LET reading == [id |-> i, pipe_write |-> FALSE]
                  writing == [id |-> i, pipe_write |-> TRUE]
              IN  IF \E f, g \in free : f # g
                  THEN /\ pipes' = [pipes EXCEPT ![i] = NewPipe]
                       /\ pfds' = [pfds EXCEPT ![p][r] = reading, ![p][w] = writing]
                  ELSE /\ pipes' = close_both_ends(i)
                       /\ pfds' = IF free = {} THEN pfds
                                  ELSE [pfds EXCEPT ![p][r] = reading]
           /\ queue' = [queue EXCEPT ![i] = <<>>]
    BY <1>1 DEF pipe2_syscall
  <2>2. readers' = readers /\ pipes[i] = NoPipe
    BY <1>1, <2>1 DEF pipe2_syscall, alloc_pipe
  <2> HIDE DEF free, r, w
  <2>3. pfds' \in [PipeProcs -> [Fds -> Handles]]
    <3>1. [id |-> i, pipe_write |-> FALSE] \in Handles /\ [id |-> i, pipe_write |-> TRUE] \in Handles
      BY DEF Handles
    <3> DEFINE T == [pfds EXCEPT ![p][r] = [id |-> i, pipe_write |-> FALSE]]
    <3>2. T \in [PipeProcs -> [Fds -> Handles]]
      BY <1>0, <3>1, HandleChanged
    <3>3. \/ pfds' = pfds \/ pfds' = T
          \/ pfds' = [T EXCEPT ![p][w] = [id |-> i, pipe_write |-> TRUE]]
      BY <2>1
    <3> HIDE DEF T
    <3>4. [T EXCEPT ![p][w] = [id |-> i, pipe_write |-> TRUE]] \in [PipeProcs -> [Fds -> Handles]]
      BY <3>1, <3>2, HandleChanged
    <3> QED BY <1>0, <3>2, <3>3, <3>4
  <2>4. Carries(NewPipe, <<>>)
    <3>1. NewPipe \in PipeBuffer /\ NewPipe.len = 0 /\ NewPipe.write_pos = 0 /\ NewPipe.read_pos = 0
      BY PipeRing DEF NewPipe, PipeBuffer, Places
    <3>2. Place(0 + 0) = 0
      BY PipeRing DEF Place
    <3> QED BY <3>1, <3>2, EmptySeq DEF Carries
  <2>5. pipes' = [pipes EXCEPT ![i] = NewPipe] \/ pipes' = [pipes EXCEPT ![i] = NoPipe]
    BY <2>1 DEF close_both_ends
  <2>6. PipeRings(pipes', queue')
    <3>1. PipeRings([pipes EXCEPT ![i] = NewPipe], queue')
      BY <1>0, <2>1, <2>4, RingChanged
    <3>2. PipeRings([pipes EXCEPT ![i] = NoPipe], queue')
      BY <1>0, <2>1, EmptySeq DEF PipeRings
    <3> QED BY <2>5, <3>1, <3>2
  <2>7. \A j \in PipeIds : pipes[j] # NoPipe => pipes'[j] = pipes[j]
    BY <1>0, <2>2, <2>5 DEF PipeRings
  <2> QED BY <1>0, <2>2, <2>3, <2>6, <2>7 DEF ReadersWait, LoneWait
<1>2. ASSUME NEW p \in PipeProcs, NEW c \in PipeProcs, clone_for_fork(p, c)
      PROVE  /\ PipeRings(pipes', queue') /\ pfds' \in [PipeProcs -> [Fds -> Handles]]
             /\ ReadersWait(pipes', readers') /\ LoneWait(pipes', readers')
  <2>1. /\ pipes' = pipes /\ queue' = queue /\ pfds' = [pfds EXCEPT ![c] = pfds[p]]
        /\ readers' = [readers EXCEPT ![c].st = "Ready"]
    BY <1>2 DEF clone_for_fork
  <2>2. pfds' \in [PipeProcs -> [Fds -> Handles]]
    BY <1>0, <2>1
  <2>3. /\ readers' \in [PipeProcs -> Reader] /\ readers'[c].st = "Ready"
        /\ readers'[c].reading = readers[c].reading /\ readers'[c].want = readers[c].want
        /\ \A q \in PipeProcs \ {c} : readers'[q] = readers[q]
    BY <1>0, <2>1, ZenonT(30) DEF Reader
  <2> QED BY <1>0, <2>1, <2>2, <2>3 DEF ReadersWait, LoneWait
<1>3. ASSUME NEW p \in PipeProcs, NEW f \in Fds, close(p, f)
      PROVE  /\ PipeRings(pipes', queue') /\ pfds' \in [PipeProcs -> [Fds -> Handles]]
             /\ ReadersWait(pipes', readers') /\ LoneWait(pipes', readers')
  <2>1. /\ pipes' = pipes /\ queue' = queue /\ readers' = readers
        /\ pfds' = [pfds EXCEPT ![p][f] = NoFd]
    BY <1>3 DEF close
  <2>2. pfds' \in [PipeProcs -> [Fds -> Handles]]
    BY <1>0, <2>1 DEF Handles
  <2> QED BY <1>0, <2>1, <2>2
<1>4. ASSUME NEW p \in PipeProcs, NEW f \in Fds, NEW iov \in PipeData, writev(p, f, iov)
      PROVE  /\ PipeRings(pipes', queue') /\ pfds' \in [PipeProcs -> [Fds -> Handles]]
             /\ ReadersWait(pipes', readers') /\ LoneWait(pipes', readers')
  <2> DEFINE i == pfds[p][f].id
  <2> DEFINE w == WriteAllOf([pb |-> pipes[i], readers |-> readers, sent |-> <<>>, go |-> TRUE],
                             iov, p)
  <2>1. /\ readers[p].st = "Ready" /\ pipes[i] # NoPipe /\ w.sent # <<>>
        /\ pipes' = [pipes EXCEPT ![i] = w.pb] /\ readers' = w.readers
        /\ queue' = [queue EXCEPT ![i] = queue[i] \o w.sent] /\ pfds' = pfds
    BY <1>4 DEF writev, write_fd, InUser
  <2>2. i \in PipeIds
    <3>1. pfds[p][f].pipe_write /\ pfds[p][f] \in Handles
      BY <1>0, <1>4, ZenonT(30) DEF writev, write_fd
    <3> QED BY <3>1 DEF Handles, NoFd
  <2>3. Carries(pipes[i], queue[i])
    BY <1>0, <2>1, <2>2, ZenonT(30) DEF PipeRings
  <2>4. WrittenSoFar(w, pipes[i], queue[i], readers, p)
    BY <1>0, <2>3, WriteEvery
  <2> HIDE DEF i, w
  <2>5. /\ Carries(w.pb, queue[i] \o w.sent) /\ w.pb.waiter = pipes[i].waiter
        /\ Woken(readers, w.readers)
        /\ pipes[i].waiter \in PipeProcs \ {p} => w.readers[pipes[i].waiter].st # "Sleeping"
    BY <2>1, <2>4, Zenon DEF WrittenSoFar
  <2>6. PipeRings(pipes', queue')
    BY <1>0, <2>1, <2>2, <2>5, RingChanged
  <2>7. /\ \A j \in PipeIds : /\ pipes[j] # NoPipe => pipes'[j] # NoPipe
                              /\ j # i => pipes'[j] = pipes[j]
    BY <1>0, <2>1, <2>2, <2>5, PipeThere DEF PipeRings
  <2>8. ReadersWait(pipes', readers')
    <3>1. ASSUME NEW q \in PipeProcs
          PROVE  /\ readers'[q].reading # -1 =>
                       /\ readers'[q].reading \in PipeIds
                       /\ pipes'[readers'[q].reading] # NoPipe
                       /\ readers'[q].want \in Lengths /\ readers'[q].st # "Absent"
                 /\ readers'[q].st = "Sleeping" => readers'[q].reading # -1
      <4>1. /\ readers'[q].reading = readers[q].reading /\ readers'[q].want = readers[q].want
            /\ readers'[q].st = "Absent" <=> readers[q].st = "Absent"
            /\ readers'[q].st = "Sleeping" => readers[q].st = "Sleeping"
        BY <2>1, <2>5, Zenon DEF Woken
      <4>2. /\ readers[q].reading # -1 =>
                  /\ readers[q].reading \in PipeIds
                  /\ pipes[readers[q].reading] # NoPipe
                  /\ readers[q].want \in Lengths /\ readers[q].st # "Absent"
            /\ readers[q].st = "Sleeping" => readers[q].reading # -1
        BY <1>0, Zenon DEF ReadersWait
      <4> QED BY <2>7, <4>1, <4>2
    <3>2. readers' \in [PipeProcs -> Reader]
      BY <2>1, <2>5, Zenon DEF Woken
    <3> QED BY <3>1, <3>2, Zenon DEF ReadersWait
  <2>9. LoneWait(pipes', readers')
    <3>1. ASSUME NEW q \in PipeProcs, readers'[q].st = "Sleeping", readers'[q].alone
          PROVE  pipes'[readers'[q].reading].len = 0 /\ pipes'[readers'[q].reading].waiter = q
      <4>1. readers[q].st = "Sleeping" /\ readers[q].alone /\ readers'[q].reading = readers[q].reading
        BY <2>1, <2>5, <3>1 DEF Woken
      <4>2. /\ readers[q].reading \in PipeIds
            /\ pipes[readers[q].reading].len = 0 /\ pipes[readers[q].reading].waiter = q
        BY <1>0, <4>1 DEF ReadersWait, LoneWait
      <4>3. readers[q].reading # i
        BY <2>1, <2>5, <3>1, <4>1, <4>2
      <4> QED BY <2>7, <4>1, <4>2, <4>3
    <3> QED BY <3>1 DEF LoneWait
  <2> QED BY <1>0, <2>1, <2>6, <2>8, <2>9
<1>5. ASSUME NEW p \in PipeProcs, NEW f \in Fds, NEW iov \in PipeWants, readv(p, f, iov)
      PROVE  /\ PipeRings(pipes', queue') /\ pfds' \in [PipeProcs -> [Fds -> Handles]]
             /\ ReadersWait(pipes', readers') /\ LoneWait(pipes', readers')
  <2> DEFINE i == pfds[p][f].id
  <2>1. ReadTurn(p, pipes, i, iov) /\ readers[p].st = "Ready" /\ pfds' = pfds
    BY <1>5 DEF readv, InUser
  <2>2. i \in PipeIds
    BY <1>0, <1>5 DEF readv, read_fd, Handles
  <2>3. iov \in Lengths
    BY PipeConstants DEF Lengths
  <2> HIDE DEF i
  <2>4. \A q \in PipeProcs : readers[q].st = "Sleeping" /\ readers[q].alone =>
            /\ pipes[readers[q].reading].len = 0
            /\ readers[q].reading # i => pipes[readers[q].reading].waiter = q
    BY <1>0, Zenon DEF LoneWait
  <2> QED BY <1>0, <2>1, <2>2, <2>3, <2>4, ReadTurnSafe
<1>6. ASSUME NEW p \in PipeProcs, pipe_read_blocking(p)
      PROVE  /\ PipeRings(pipes', queue') /\ pfds' \in [PipeProcs -> [Fds -> Handles]]
             /\ ReadersWait(pipes', readers') /\ LoneWait(pipes', readers')
  <2> DEFINE i == readers[p].reading
  <2> DEFINE P == IF pipes[i] = NoPipe THEN pipes ELSE [pipes EXCEPT ![i].waiter = 0]
  <2>1. /\ ReadTurn(p, P, i, readers[p].want) /\ readers[p].st = "Ready" /\ i # -1
        /\ pfds' = pfds
    BY <1>6 DEF pipe_read_blocking
  <2>2. i \in PipeIds /\ pipes[i] # NoPipe /\ readers[p].want \in Lengths
    BY <1>0, <2>1 DEF ReadersWait
  <2> HIDE DEF i
  <2>3. Carries(pipes[i], queue[i]) /\ pipes \in [PipeIds -> PipeBuffer \cup {NoPipe}]
    BY <1>0, <2>2 DEF PipeRings
  <2> DEFINE b == [pipes[i] EXCEPT !.waiter = 0]
  <2>4. Carries(b, queue[i]) /\ b.len = pipes[i].len
    BY <2>3 DEF Carries, PipeBuffer
  <2>5. P = [pipes EXCEPT ![i] = b]
    BY <2>2, <2>3
  <2> HIDE DEF b, P
  <2>6. PipeRings(P, queue)
    <3>1. [queue EXCEPT ![i] = queue[i]] = queue
      BY <1>0 DEF PipeRings
    <3>2. PipeRings(P, [queue EXCEPT ![i] = queue[i]])
      BY <1>0, <2>2, <2>4, <2>5, RingChanged
    <3> QED BY <3>1, <3>2
  <2>7. \A j \in PipeIds : /\ pipes[j] # NoPipe => P[j] # NoPipe
                           /\ P[j].len = pipes[j].len
                           /\ j # i => P[j] = pipes[j]
    BY <2>2, <2>3, <2>4, <2>5, PipeThere
  <2>8. ReadersWait(P, readers)
    BY <1>0, <2>7 DEF ReadersWait
  <2>9. \A q \in PipeProcs : readers[q].st = "Sleeping" /\ readers[q].alone =>
            /\ P[readers[q].reading].len = 0
            /\ readers[q].reading # i => P[readers[q].reading].waiter = q
    BY <1>0, <2>7 DEF LoneWait, ReadersWait
  <2> QED BY <1>0, <2>1, <2>2, <2>6, <2>8, <2>9, ReadTurnSafe
<1>7. ASSUME NEW p \in PipeProcs, SignalReader(p)
      PROVE  /\ PipeRings(pipes', queue') /\ pfds' \in [PipeProcs -> [Fds -> Handles]]
             /\ ReadersWait(pipes', readers') /\ LoneWait(pipes', readers')
  <2>1. /\ pipes' = pipes /\ queue' = queue /\ pfds' = pfds
        /\ readers' = [readers EXCEPT ![p].st = "Ready"]
    BY <1>7 DEF SignalReader
  <2>2. /\ readers' \in [PipeProcs -> Reader] /\ readers'[p].st = "Ready"
        /\ readers'[p].reading = readers[p].reading /\ readers'[p].want = readers[p].want
        /\ \A q \in PipeProcs \ {p} : readers'[q] = readers[q]
    BY <1>0, <2>1 DEF Reader
  <2>3. readers[p].st = "Sleeping"
    BY <1>7 DEF SignalReader
  <2> QED BY <1>0, <2>1, <2>2, <2>3 DEF ReadersWait, LoneWait
<1>8. ASSUME UNCHANGED pipeVars
      PROVE  /\ PipeRings(pipes', queue') /\ pfds' \in [PipeProcs -> [Fds -> Handles]]
             /\ ReadersWait(pipes', readers') /\ LoneWait(pipes', readers')
  BY <1>0, <1>8 DEF pipeVars
<1> QED BY <1>1, <1>2, <1>3, <1>4, <1>5, <1>6, <1>7, <1>8, Zenon DEF PipeNext

(* The invariant holds always.                                             *)
LEMMA PipeAlways == PipeSpec => []PipeIInv
  BY PipeInitInv, PipeStep, PTL DEF PipeSpec

(* For every ring size, table and set of processes, and whatever the       *)
(* buffers of write, writev, read and readv: write_bytes and read_bytes,   *)
(* with their wrapping positions, keep the ring the queue of the bytes     *)
(* written and not yet read.                                               *)
THEOREM PipeKeepsItsBytes == PipeSpec => []RingIsQueue
<1>1. ASSUME PipeIInv PROVE RingIsQueue
  <2>1. ASSUME NEW i \in PipeIds, pipes[i] # NoPipe
        PROVE  pipes[i].len <= PIPE_BUF_SIZE /\ Contents(pipes[i]) = queue[i]
    <3> DEFINE pb == pipes[i]
    <3> DEFINE q == queue[i]
    <3>1. Carries(pb, q)
      BY <1>1, <2>1 DEF PipeIInv, PipeRings
    <3> HIDE DEF pb, q
    <3>2. /\ pb.len \in 0 .. PIPE_BUF_SIZE /\ pb.read_pos \in Nat
          /\ q \in Seq(Nat) /\ Len(q) = pb.len
      BY <3>1, PipeRing DEF Carries, PipeBuffer, Places
    <3>3. pb.len <= PIPE_BUF_SIZE /\ pb.len \in Nat
      <4>1. PIPE_BUF_SIZE \in Nat
        BY PipeRing
      <4> QED BY <3>2, <4>1
    <3>4. ASSUME NEW k \in 1 .. pb.len
          PROVE  pb.buf[(pb.read_pos + k - 1) % PIPE_BUF_SIZE] = q[k]
      <4>1. pb.read_pos + k - 1 = pb.read_pos + (k - 1)
        BY <3>2, <3>3
      <4>2. Place(pb.read_pos + (k - 1)) = (pb.read_pos + k - 1) % PIPE_BUF_SIZE
        BY <4>1, Zenon DEF Place
      <4> QED BY <3>1, <4>2 DEF Carries
    <3>5. Contents(pb) = [k \in 1 .. pb.len |-> q[k]]
      BY <3>4, Zenon DEF Contents
    <3>6. q = [k \in 1 .. pb.len |-> q[k]]
      BY <3>2
    <3>7. pb.len <= PIPE_BUF_SIZE /\ Contents(pb) = q
      BY <3>3, <3>5, <3>6
    <3> QED BY <3>7 DEF pb, q
  <2> QED BY <2>1 DEF RingIsQueue
<1> QED BY <1>1, PipeAlways, PTL

(* For every number of processes and pipes: pipe_read_blocking registers   *)
(* and sleeps without losing the wake-up of pipe_write, as long as no      *)
(* second thread reads the same pipe: its reader sleeps on an empty pipe   *)
(* only, and is the registered one.                                        *)
THEOREM PipeWakesLoneReader == PipeSpec => []LoneReaderWoken
<1>1. PipeIInv => LoneReaderWoken
  BY DEF PipeIInv, LoneWait, LoneReaderWoken
<1> QED BY <1>1, PipeAlways, PTL
=============================================================================
