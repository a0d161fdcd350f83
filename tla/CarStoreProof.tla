--------------------------- MODULE CarStoreProof ---------------------------
(***************************************************************************)
(* The theorems about the memory device, for any number of files and any   *)
(* size of quanta, quantum sets and ints: a position has the place of its  *)
(* cell, the list reaches to the end of the data, the device is a flat     *)
(* file, and a hole is left only behind a seek.                            *)
(***************************************************************************)
EXTENDS CarStore, TLAPS

-----------------------------------------------------------------------------
(* The place of a position *)

LEMMA Times ==
    ASSUME NEW a \in Nat, NEW x \in Int, NEW y \in Int, x <= y
    PROVE  a * x \in Int /\ a * y \in Int /\ a * x <= a * y /\ a * (x + 1) = a * x + a
BY SMT

LEMMA Division ==
    ASSUME NEW a \in Nat, NEW b \in Nat \ {0}
    PROVE  /\ a \div b \in Nat /\ a % b \in 0 .. b - 1
           /\ a = b * (a \div b) + (a % b)
BY SMT

LEMMA DivisionIs ==
    ASSUME NEW b \in Nat \ {0}, NEW k \in Nat, NEW r \in 0 .. b - 1, NEW a, a = b * k + r
    PROVE  a \in Nat /\ a \div b = k /\ a % b = r
<1>1. b * k \in Nat /\ a \in Nat
  BY SMT
<1>2. PICK q \in Nat, s \in 0 .. b - 1 : q = a \div b /\ s = a % b /\ a = b * q + s
  BY <1>1, Division
<1>3. ~(k < q)
  <2>1. SUFFICES ASSUME k < q PROVE FALSE
    OBVIOUS
  <2>2. b * (k + 1) <= b * q /\ b * (k + 1) = b * k + b /\ b * q \in Int /\ b * k \in Int
    BY <2>1, Times
  <2>. QED  BY <1>2, <2>2
<1>4. ~(q < k)
  <2>1. SUFFICES ASSUME q < k PROVE FALSE
    OBVIOUS
  <2>2. b * (q + 1) <= b * k /\ b * (q + 1) = b * q + b /\ b * q \in Int /\ b * k \in Int
    BY <2>1, Times
  <2>. QED  BY <1>2, <2>2
<1>5. k = q
  BY <1>3, <1>4
<1>6. r = s
  BY <1>1, <1>2, <1>5
<1>. QED  BY <1>1, <1>2, <1>5, <1>6

LEMMA ItemSizeIs ==
    /\ ItemSize \in Nat \ {0} /\ Quantum \in Nat \ {0} /\ Qset \in Nat \ {0}
    /\ IntSize \in Nat \ {0} /\ Span \in Nat \ {0} /\ Span >= ItemSize /\ ItemSize >= Quantum
<1>1. Quantum \in Nat \ {0} /\ Qset \in Nat \ {0} /\ IntSize \in Nat \ {0}
  BY StoreAssumption
<1>2. \A a, b \in Nat \ {0} : a * b \in Nat \ {0} /\ a * b >= a /\ a * b >= b
  <2>1. SUFFICES ASSUME NEW a \in Nat \ {0}, NEW b \in Nat \ {0}
                 PROVE  a * b \in Nat \ {0} /\ a * b >= a /\ a * b >= b
    OBVIOUS
  <2>2. a * 1 <= a * b /\ b * 1 <= b * a /\ a * b = b * a /\ a * 1 = a /\ b * 1 = b
        /\ a * b \in Int
    BY Times, SMT
  <2>. QED  BY <2>2
<1>3. ItemSize \in Nat \ {0} /\ ItemSize >= Quantum
  BY <1>1, <1>2 DEF ItemSize
<1>. QED  BY <1>1, <1>2, <1>3 DEF Span

(* The item of a position in a list without end. *)
Row(p) == p \div ItemSize

(* Position p stands in one item, one quantum of it, one byte of that. *)
LEMMA Place ==
    ASSUME NEW p \in Nat
    PROVE  /\ Row(p) \in Nat /\ SPos(p) \in 0 .. Qset - 1 /\ QPos(p) \in 0 .. Quantum - 1
           /\ p = ItemSize * Row(p) + (Quantum * SPos(p) + QPos(p))
           /\ Quantum * SPos(p) + QPos(p) \in 0 .. ItemSize - 1
<1>1. PICK k, r, s, c : k = Row(p) /\ r = p % ItemSize /\ s = SPos(p) /\ c = QPos(p)
  OBVIOUS
<1>2. k \in Nat /\ r \in 0 .. ItemSize - 1 /\ p = ItemSize * k + r
  BY <1>1, ItemSizeIs, Division DEF Row
<1>3. r \in Nat
  BY <1>2, ItemSizeIs
<1>4. s \in Nat /\ c \in 0 .. Quantum - 1 /\ r = Quantum * s + c
  BY <1>1, <1>3, ItemSizeIs, Division DEF SPos, QPos
<1>5. s < Qset
  <2>1. SUFFICES ASSUME Qset <= s PROVE FALSE
    BY <1>4, ItemSizeIs
  <2>2. Quantum * Qset <= Quantum * s /\ Quantum * Qset \in Int /\ Quantum * s \in Int
    BY <1>4, <2>1, ItemSizeIs, Times
  <2>. QED  BY <1>2, <1>4, <2>2, ItemSizeIs DEF ItemSize
<1>6. s \in 0 .. Qset - 1
  BY <1>4, <1>5, ItemSizeIs
<1>. QED  BY <1>1, <1>2, <1>4, <1>6

LEMMA PlaceIs ==
    ASSUME NEW k \in Nat, NEW s \in 0 .. Qset - 1, NEW c \in 0 .. Quantum - 1,
           NEW p, p = ItemSize * k + (Quantum * s + c)
    PROVE  p \in Nat /\ Row(p) = k /\ SPos(p) = s /\ QPos(p) = c
<1>1. s \in Nat /\ c \in Nat /\ s + 1 <= Qset
  BY ItemSizeIs
<1>2. PICK r : r = Quantum * s + c
  OBVIOUS
<1>3. r \in Nat /\ r \div Quantum = s /\ r % Quantum = c
  BY <1>1, <1>2, ItemSizeIs, DivisionIs
<1>4. r \in 0 .. ItemSize - 1
  <2>1. /\ Quantum * (s + 1) <= Quantum * Qset /\ Quantum * Qset = ItemSize
        /\ Quantum * s \in Int
    BY <1>1, ItemSizeIs, Times DEF ItemSize
  <2>2. Quantum * (s + 1) = Quantum * s + Quantum
    BY <1>1, ItemSizeIs, Times
  <2>. QED  BY <1>2, <1>3, <2>1, <2>2, ItemSizeIs
<1>5. p \in Nat /\ p \div ItemSize = k /\ p % ItemSize = r
  <2>1. PICK b \in Nat \ {0} : b = ItemSize
    BY ItemSizeIs
  <2>2. r \in 0 .. b - 1 /\ p = b * k + r
    BY <1>2, <1>4, <2>1
  <2>3. \A a : a = b * k + r => a \in Nat /\ a \div b = k /\ a % b = r
    <3>1. k \in Nat /\ r \in 0 .. b - 1 /\ b \in Nat \ {0}
      BY <2>2
    <3> HIDE <1>1, <1>2, <1>3, <1>4, <2>1, <2>2
    <3>. QED  BY <3>1, DivisionIs
  <2>. QED  BY <2>1, <2>2, <2>3
<1>. QED  BY <1>3, <1>5 DEF Row, SPos, QPos

(* The positions of one quantum follow each other ... *)
LEMMA Behind ==
    ASSUME NEW p \in Nat, NEW i \in Int, QPos(p) + i \in 0 .. Quantum - 1
    PROVE  /\ p + i \in Nat /\ Row(p + i) = Row(p) /\ SPos(p + i) = SPos(p)
           /\ QPos(p + i) = QPos(p) + i
<1>1. PICK k, s, c : k = Row(p) /\ s = SPos(p) /\ c = QPos(p)
  OBVIOUS
<1>2. /\ k \in Nat /\ s \in 0 .. Qset - 1 /\ c \in 0 .. Quantum - 1
      /\ p = ItemSize * k + (Quantum * s + c)
  BY <1>1, Place
<1>3. ItemSize * k \in Int /\ Quantum * s \in Int
  <2>1. s \in Int
    BY <1>2, ItemSizeIs
  <2>. QED  BY <1>2, <2>1, ItemSizeIs, Times
<1>4. p + i = ItemSize * k + (Quantum * s + (c + i))
  BY <1>2, <1>3, ItemSizeIs
<1>5. c + i \in 0 .. Quantum - 1
  BY <1>1
<1>. QED  BY <1>1, <1>2, <1>4, <1>5, PlaceIs

(* ... and no other position has a place there. *)
LEMMA Between ==
    ASSUME NEW p \in Nat, NEW q \in Nat
    PROVE  /\ Row(p) = Row(q) /\ SPos(p) = SPos(q) => q - p = QPos(q) - QPos(p)
           /\ q - p + QPos(p) \in 0 .. Quantum - 1 => Row(p) = Row(q) /\ SPos(p) = SPos(q)
<1>0. QPos(p) \in Int /\ QPos(q) \in Int
  BY Place, ItemSizeIs
<1>1. ASSUME Row(p) = Row(q), SPos(p) = SPos(q) PROVE q - p = QPos(q) - QPos(p)
  <2>1. PICK a, b : a = ItemSize * Row(p) /\ b = Quantum * SPos(p)
    OBVIOUS
  <2>2. p = a + (b + QPos(p)) /\ q = a + (b + QPos(q))
    BY <1>1, <2>1, Place
  <2>3. a \in Int /\ b \in Int
    <3>1. Row(p) \in Int /\ SPos(p) \in Int
      BY Place, ItemSizeIs
    <3>. QED  BY <2>1, <3>1, ItemSizeIs, Times
  <2>4. PICK x \in Int, y \in Int : x = QPos(p) /\ y = QPos(q)
    BY <1>0
  <2>5. p = a + (b + x) /\ q = a + (b + y)
    BY <2>2, <2>4
  <2>6. q - p = y - x
    BY <2>3, <2>5
  <2>. QED  BY <2>4, <2>6
<1>2. ASSUME q - p + QPos(p) \in 0 .. Quantum - 1 PROVE Row(p) = Row(q) /\ SPos(p) = SPos(q)
  <2>1. PICK i \in Int : i = q - p
    OBVIOUS
  <2>2. QPos(p) + i \in 0 .. Quantum - 1 /\ p + i = q
    BY <1>0, <1>2, <2>1
  <2>. QED  BY <2>2, Behind
<1>. QED  BY <1>1, <1>2

(* The last byte of a quantum is within its item. *)
LEMMA QuantumEnds ==
    ASSUME NEW p \in Nat
    PROVE  p + (Quantum - QPos(p)) <= (Row(p) + 1) * ItemSize
<1>1. PICK k, s, c : k = Row(p) /\ s = SPos(p) /\ c = QPos(p)
  OBVIOUS
<1>2. /\ k \in Nat /\ s \in 0 .. Qset - 1 /\ c \in 0 .. Quantum - 1
      /\ p = ItemSize * k + (Quantum * s + c)
  BY <1>1, Place
<1>3. s \in Int /\ s + 1 <= Qset
  BY <1>2, ItemSizeIs
<1>4. /\ Quantum * (s + 1) <= ItemSize /\ Quantum * (s + 1) = Quantum * s + Quantum
      /\ Quantum * s \in Int /\ ItemSize * k \in Int
  BY <1>2, <1>3, ItemSizeIs, Times DEF ItemSize
<1>5. p + (Quantum - c) <= ItemSize * k + ItemSize
  BY <1>2, <1>4, ItemSizeIs
<1>6. (k + 1) * ItemSize = ItemSize * k + ItemSize
  BY <1>2, ItemSizeIs, SMT
<1>. QED  BY <1>1, <1>5, <1>6

LEMMA Modulo ==
    ASSUME NEW b \in Nat \ {0}, NEW a \in Int
    PROVE  /\ a % b \in 0 .. b - 1
           /\ \E w \in Int : a = b * w + (a % b)
<1>1. a \div b \in Int /\ a % b \in 0 .. b - 1 /\ a = b * (a \div b) + (a % b)
  BY SMT
<1>. QED  BY <1>1

LEMMA ModuloIs ==
    ASSUME NEW b \in Nat \ {0}, NEW k \in Int, NEW r \in 0 .. b - 1, NEW a, a = b * k + r
    PROVE  a \in Int /\ a % b = r
<1>1. b * k \in Int /\ a \in Int
  BY SMT
<1>2. PICK q \in Int, s \in 0 .. b - 1 : s = a % b /\ a = b * q + s
  BY <1>1, Modulo
<1>3. ~(k < q)
  <2>1. SUFFICES ASSUME k < q PROVE FALSE
    OBVIOUS
  <2>2. b * (k + 1) <= b * q /\ b * (k + 1) = b * k + b /\ b * q \in Int /\ b * k \in Int
    BY <2>1, Times
  <2>. QED  BY <1>2, <2>2
<1>4. ~(q < k)
  <2>1. SUFFICES ASSUME q < k PROVE FALSE
    OBVIOUS
  <2>2. b * (q + 1) <= b * k /\ b * (q + 1) = b * q + b /\ b * q \in Int /\ b * k \in Int
    BY <2>1, Times
  <2>. QED  BY <1>2, <2>2
<1>5. k = q
  BY <1>3, <1>4
<1>. QED  BY <1>1, <1>2, <1>5

(* Differences of positions may be taken cell by cell. *)
LEMMA Shifts ==
    ASSUME NEW p \in Int, NEW q \in Int
    PROVE  /\ Flat!Cell(q) \in 0 .. Span - 1
           /\ Flat!Cell(q - p) \in 0 .. Span - 1
           /\ Flat!Cell(Flat!Cell(q) - p) = Flat!Cell(q - p)
           /\ Flat!Cell(q - Flat!Cell(p)) = Flat!Cell(q - p)
<1>1. PICK b \in Nat \ {0} : b = Span
  BY ItemSizeIs
<1>2. PICK c, d, e : c = q % b /\ d = p % b /\ e = (q - p) % b
  OBVIOUS
<1>3. /\ c \in 0 .. b - 1 /\ d \in 0 .. b - 1 /\ e \in 0 .. b - 1
      /\ \E w \in Int : q = b * w + c
      /\ \E w \in Int : p = b * w + d
      /\ \E w \in Int : q - p = b * w + e
  <2>1. q - p \in Int
    OBVIOUS
  <2>. QED  BY <1>2, <2>1, Modulo
<1>4. PICK u \in Int, v \in Int, w \in Int : q = b * u + c /\ p = b * v + d /\ q - p = b * w + e
  BY <1>3
<1>5. /\ b * (w - u) = b * w - b * u /\ b * (w + v) = b * w + b * v
      /\ b * u \in Int /\ b * v \in Int /\ b * w \in Int
  BY SMT
<1>6. c - p = b * (w - u) + e /\ q - d = b * (w + v) + e
  BY <1>3, <1>4, <1>5
<1>7. (c - p) % b = e /\ (q - d) % b = e
  <2>1. PICK m \in Int, n \in Int : m = w - u /\ n = w + v
    OBVIOUS
  <2>2. PICK x, y : x = c - p /\ y = q - d
    OBVIOUS
  <2>3. x = b * m + e /\ y = b * n + e /\ e \in 0 .. b - 1
    BY <1>3, <1>6, <2>1, <2>2
  <2>4. x % b = e /\ y % b = e
    <3> HIDE <1>2, <1>3, <1>4, <1>5, <1>6, <2>1, <2>2
    <3>. QED  BY <2>3, ModuloIs
  <2>. QED  BY <2>2, <2>4
<1>. QED  BY <1>1, <1>2, <1>3, <1>7 DEF Flat!Cell

LEMMA SmallCell ==
    ASSUME NEW d \in Int, NEW x \in 0 .. Span - 1, d = x \/ d = x - Span
    PROVE  Flat!Cell(d) = x
<1>1. PICK b \in Nat \ {0} : b = Span
  BY ItemSizeIs
<1>2. PICK k \in Int : d = b * k + x
  <2>1. b * 0 = 0 /\ b * (-1) = -b
    BY SMT
  <2>2. CASE d = x
    BY <1>1, <2>1, <2>2
  <2>3. CASE d = x - Span
    BY <1>1, <2>1, <2>3
  <2>. QED  BY <2>2, <2>3
<1>3. d % b = x
  <2>1. x \in 0 .. b - 1
    BY <1>1
  <2>. QED  BY <1>2, <2>1, ModuloIs
<1>. QED  BY <1>1, <1>3 DEF Flat!Cell

(* Below Span the items are those of a list without end ... *)
LEMMA NoWrap ==
    ASSUME NEW c \in Nat, c < Span
    PROVE  Row(c) < IntSize /\ Item(c) = Row(c)
<1>1. PICK k \in Nat, r \in Nat : k = Row(c) /\ c = ItemSize * k + r
  <2>1. c \div ItemSize \in Nat /\ c % ItemSize \in 0 .. ItemSize - 1
        /\ c = ItemSize * (c \div ItemSize) + (c % ItemSize)
    BY ItemSizeIs, Division
  <2>2. c % ItemSize \in Nat
    BY <2>1, ItemSizeIs
  <2>. QED  BY <2>1, <2>2 DEF Row
<1>2. k < IntSize
  <2>1. SUFFICES ASSUME IntSize <= k PROVE FALSE
    BY <1>1, ItemSizeIs
  <2>2. ItemSize * IntSize <= ItemSize * k /\ ItemSize * IntSize \in Int /\ ItemSize * k \in Int
    BY <2>1, ItemSizeIs, Times
  <2>3. Span = ItemSize * IntSize
    BY ItemSizeIs, SMT DEF Span
  <2>. QED  BY <1>1, <2>2, <2>3
<1>3. k % IntSize = k
  <2>1. k = IntSize * 0 + k /\ k \in 0 .. IntSize - 1 /\ 0 \in Nat
    BY <1>2, ItemSizeIs
  <2>. QED  BY <2>1, ItemSizeIs, DivisionIs
<1>. QED  BY <1>1, <1>2, <1>3 DEF Item, Row

(* ... and every other position has the place of its cell. *)
LEMMA Wraps ==
    ASSUME NEW p \in Nat, NEW c, c = Flat!Cell(p)
    PROVE  /\ c \in Nat /\ c < Span /\ Item(p) = Row(c) /\ Item(c) = Row(c)
           /\ SPos(p) = SPos(c) /\ QPos(p) = QPos(c)
<1>1. PICK w \in Nat : c \in 0 .. Span - 1 /\ p = Span * w + c
  <2>1. p \div Span \in Nat /\ p % Span \in 0 .. Span - 1 /\ p = Span * (p \div Span) + (p % Span)
    BY ItemSizeIs, Division
  <2>. QED  BY <2>1 DEF Flat!Cell
<1>2. c \in Nat /\ c < Span /\ Span \in Nat
  BY <1>1, ItemSizeIs
<1>3. PICK k, r : k = Row(c) /\ r = c % ItemSize
  OBVIOUS
<1>4. k \in Nat /\ r \in 0 .. ItemSize - 1 /\ c = ItemSize * k + r
  BY <1>2, <1>3, ItemSizeIs, Division DEF Row
<1>5. k < IntSize /\ Item(c) = k
  BY <1>2, <1>3, NoWrap
<1>6. PICK m \in Nat : m = IntSize * w + k /\ m % IntSize = k
  <2>1. k \in 0 .. IntSize - 1
    BY <1>4, <1>5, ItemSizeIs
  <2>. QED  BY <2>1, ItemSizeIs, DivisionIs
<1>7. p = ItemSize * m + r
  <2>1. Span * w = ItemSize * (IntSize * w)
    <3>1. \A x, y, z \in Nat : (x * y) * z = y * (x * z)
      BY SMT
    <3>. QED  BY <3>1, ItemSizeIs DEF Span
  <2>2. ItemSize * m = ItemSize * (IntSize * w) + ItemSize * k /\ ItemSize * (IntSize * w) \in Int
        /\ ItemSize * k \in Int
    <3>1. \A x, y, z \in Nat : x * (y + z) = x * y + x * z /\ x * y \in Int /\ x * z \in Int
      BY SMT
    <3>2. IntSize * w \in Nat
      BY ItemSizeIs, SMT
    <3>. QED  BY <1>4, <1>6, <3>1, <3>2, ItemSizeIs
  <2>3. r \in Int
    BY <1>4, ItemSizeIs
  <2>. QED  BY <1>1, <1>4, <2>1, <2>2, <2>3
<1>8. p \div ItemSize = m /\ p % ItemSize = r
  <2>1. PICK b \in Nat \ {0} : b = ItemSize
    BY ItemSizeIs
  <2>2. r \in 0 .. b - 1 /\ p = b * m + r
    BY <1>4, <1>7, <2>1
  <2>3. p \div b = m /\ p % b = r
    <3> HIDE <1>1, <1>2, <1>3, <1>4, <1>5, <1>6, <1>7, <2>1
    <3>. QED  BY <2>2, DivisionIs
  <2>. QED  BY <2>1, <2>3
<1>. QED  BY <1>2, <1>3, <1>5, <1>6, <1>8 DEF Item, SPos, QPos

(* Which cells a copy at p into its quantum reaches. *)
LEMMA Apart ==
    ASSUME NEW p \in Nat, NEW c \in 0 .. Span - 1
    PROVE  /\ Item(c) = Item(p) /\ SPos(c) = SPos(p) =>
                 Flat!Cell(c - p) = IF QPos(c) >= QPos(p) THEN QPos(c) - QPos(p)
                                    ELSE QPos(c) - QPos(p) + Span
           /\ Flat!Cell(c - p) + QPos(p) \in 0 .. Quantum - 1 =>
                 Item(c) = Item(p) /\ SPos(c) = SPos(p)
<1>1. PICK e : e = Flat!Cell(p)
  OBVIOUS
<1>2. /\ e \in Nat /\ e < Span /\ Item(p) = Row(e) /\ SPos(p) = SPos(e) /\ QPos(p) = QPos(e)
      /\ Item(e) = Row(e)
  BY <1>1, Wraps
<1>3. c \in Nat /\ c < Span /\ Span \in Nat /\ Quantum \in Nat /\ Quantum <= Span
  BY ItemSizeIs
<1>4. Item(c) = Row(c)
  BY <1>3, NoWrap
<1>5. Flat!Cell(c - p) = Flat!Cell(c - e) /\ Flat!Cell(c - e) \in 0 .. Span - 1
  <2>1. p \in Int /\ e \in Int /\ c \in Int
    BY <1>2, <1>3
  <2>2. Flat!Cell(c - Flat!Cell(p)) = Flat!Cell(c - p)
    BY <2>1, Shifts
  <2>3. Flat!Cell(c - e) \in 0 .. Span - 1
    BY <2>1, Shifts
  <2>. QED  BY <1>1, <2>2, <2>3
<1>6. PICK a \in Int, b \in Int : /\ a = QPos(c) /\ b = QPos(p)
                                  /\ a \in 0 .. Quantum - 1 /\ b \in 0 .. Quantum - 1
  <2>1. QPos(c) \in 0 .. Quantum - 1 /\ QPos(e) \in 0 .. Quantum - 1
    BY <1>2, <1>3, Place
  <2>. QED  BY <1>2, <1>3, <2>1
<1>7. ASSUME Item(c) = Item(p), SPos(c) = SPos(p)
      PROVE  Flat!Cell(c - e) = IF a >= b THEN a - b ELSE a - b + Span
  <2>1. c - e = a - b
    <3>1. Row(e) = Row(c) /\ SPos(e) = SPos(c)
      BY <1>2, <1>4, <1>7
    <3>2. c - e = QPos(c) - QPos(e)
      BY <1>2, <1>3, <3>1, Between
    <3>. QED  BY <1>2, <1>6, <3>2
  <2>2. (IF a >= b THEN a - b ELSE a - b + Span) \in 0 .. Span - 1
    BY <1>3, <1>6
  <2>3. PICK x \in 0 .. Span - 1 : x = IF a >= b THEN a - b ELSE a - b + Span
    BY <2>2
  <2>4. c - e = x \/ c - e = x - Span
    BY <1>3, <2>1, <2>3
  <2>. QED  BY <1>2, <1>3, <2>3, <2>4, SmallCell
<1>8. ASSUME Flat!Cell(c - e) + b \in 0 .. Quantum - 1
      PROVE  Item(c) = Item(p) /\ SPos(c) = SPos(p)
  <2>1. PICK x \in Nat : x = Flat!Cell(c - e) /\ x < Span
    BY <1>3, <1>5
  <2>2. e + x \in Nat /\ Row(e + x) = Row(e) /\ SPos(e + x) = SPos(e)
    BY <1>2, <1>6, <1>8, <2>1, Behind
  <2>3. e + x < Span
    <3>1. e + (Quantum - b) <= (Row(e) + 1) * ItemSize
      BY <1>2, <1>6, QuantumEnds
    <3>2. (Row(e) + 1) * ItemSize <= Span /\ (Row(e) + 1) * ItemSize \in Int
      <4>1. Row(e) + 1 <= IntSize /\ Row(e) \in Nat
        BY <1>2, NoWrap, Place, ItemSizeIs
      <4>2. PICK k \in Nat : k = Row(e)
        BY <4>1
      <4>3. /\ ItemSize * (k + 1) <= ItemSize * IntSize /\ ItemSize * (k + 1) \in Int
        BY <4>1, <4>2, ItemSizeIs, Times
      <4>4. ItemSize * (k + 1) = (k + 1) * ItemSize /\ ItemSize * IntSize = Span
        BY ItemSizeIs, SMT DEF Span
      <4>. QED  BY <4>2, <4>3, <4>4
    <3>3. x <= Quantum - b - 1
      BY <1>3, <1>6, <1>8, <2>1
    <3>. QED  BY <1>2, <1>3, <1>6, <2>1, <3>1, <3>2, <3>3
  <2>4. c = e + x
    <3>1. CASE c >= e
      <4>1. Flat!Cell(c - e) = c - e
        BY <1>2, <1>3, <3>1, SmallCell
      <4>. QED  BY <1>2, <1>3, <2>1, <4>1
    <3>2. CASE c < e
      <4>1. Flat!Cell(c - e) = c - e + Span
        BY <1>2, <1>3, <3>2, SmallCell
      <4>. QED  BY <1>2, <1>3, <2>1, <2>3, <4>1
    <3>. QED  BY <1>2, <1>3, <3>1, <3>2
  <2>. QED  BY <1>2, <1>4, <2>2, <2>4
<1>. QED  BY <1>5, <1>6, <1>7, <1>8
-----------------------------------------------------------------------------
(* What allocations and copies do to the list *)

Arrays == {NoArray} \cup [1 .. Qset -> Quanta]
IsStore(ds) == ds \in Seq(Arrays)

(* The indices of the place. *)
LEMMA Spot ==
    ASSUME NEW p \in Nat
    PROVE  /\ Item(p) \in Nat /\ SPos(p) \in Nat /\ QPos(p) \in Nat
           /\ SPos(p) + 1 \in 1 .. Qset /\ QPos(p) + 1 \in 1 .. Quantum
<1>1. PICK a, b, c : a = Item(p) /\ b = SPos(p) /\ c = QPos(p)
  OBVIOUS
<1>2. a \in Nat /\ b \in 0 .. Qset - 1 /\ c \in 0 .. Quantum - 1
  <2>1. p \div ItemSize \in Nat
    BY ItemSizeIs, Division
  <2>2. (p \div ItemSize) % IntSize \in Nat
    <3>1. (p \div ItemSize) % IntSize \in 0 .. IntSize - 1
      BY <2>1, ItemSizeIs, Division
    <3>. QED  BY <3>1, ItemSizeIs
  <2>. QED  BY <1>1, <2>2, Place DEF Item
<1>3. Qset \in Nat /\ Quantum \in Nat
  BY ItemSizeIs
<1>4. b \in Nat /\ c \in Nat /\ b + 1 \in 1 .. Qset /\ c + 1 \in 1 .. Quantum
  BY <1>2, <1>3
<1>. QED  BY <1>1, <1>2, <1>4

LEMMA NoneIsNone ==
    /\ NoArray \notin [1 .. Qset -> Quanta]
    /\ NoQuantum \notin [1 .. Quantum -> Bytes]
<1>1. 1 \in 1 .. Qset /\ 1 \in 1 .. Quantum
  BY ItemSizeIs
<1>2. DOMAIN <<>> = {}
  OBVIOUS
<1>. QED  BY <1>1, <1>2 DEF NoArray, NoQuantum

(* What car_follow() leaves: the list, and items with nothing in them.     *)
Grown(ds) ==
    /\ IsStore(ds) /\ Len(ds) >= Len(data) /\ Len(ds) \in Nat /\ Len(data) \in Nat
    /\ \A i \in 1 .. Len(ds) : ds[i] = IF i <= Len(data) THEN data[i] ELSE NoArray

LEMMA Extends ==
    ASSUME IsStore(data), NEW n \in Nat
    PROVE  Grown(Extended(n)) /\ Len(Extended(n)) > n
<1>1. data \in Seq(Arrays) /\ Len(data) \in Nat
  BY DEF IsStore
<1>2. CASE n < Len(data)
  BY <1>1, <1>2 DEF Extended, Grown, IsStore
<1>3. CASE ~(n < Len(data))
  <2>1. PICK e : e = [i \in 1 .. n + 1 - Len(data) |-> NoArray]
    OBVIOUS
  <2>2. /\ n + 1 - Len(data) \in Nat /\ e \in Seq(Arrays) /\ Len(e) = n + 1 - Len(data)
        /\ \A i \in 1 .. Len(e) : e[i] = NoArray
    <3>1. n + 1 - Len(data) \in Nat
      BY <1>1, <1>3
    <3>2. PICK l \in Nat : l = n + 1 - Len(data)
      BY <3>1
    <3>3. e = [i \in 1 .. l |-> NoArray] /\ e \in [1 .. l -> Arrays]
      BY <2>1, <3>2 DEF Arrays
    <3>4. e \in Seq(Arrays) /\ Len(e) = l
      BY <3>3
    <3>. QED  BY <3>2, <3>3, <3>4
  <2>3. Extended(n) = data \o e
    BY <1>3, <2>1 DEF Extended
  <2>4. data \o e \in Seq(Arrays) /\ Len(data \o e) = n + 1
    BY <1>1, <2>2
  <2>5. ASSUME NEW i \in 1 .. n + 1
        PROVE  (data \o e)[i] = IF i <= Len(data) THEN data[i] ELSE NoArray
    <3>1. ~(i <= Len(data)) => i - Len(data) \in 1 .. Len(e)
      BY <1>1, <2>2
    <3>. QED  BY <1>1, <2>2, <3>1
  <2>. QED  BY <1>1, <1>3, <2>3, <2>4, <2>5 DEF Grown, IsStore
<1>. QED  BY <1>2, <1>3

LEMMA StopsGrown ==
    ASSUME IsStore(data), NEW n \in Nat, NEW ds \in Stopped(n)
    PROVE  Grown(ds)
<1>1. PICK k \in Len(data) .. n : ds = SubSeq(Extended(n), 1, k)
  BY DEF Stopped
<1>2. PICK e : e = Extended(n)
  OBVIOUS
<1>3. /\ e \in Seq(Arrays) /\ Len(e) > n /\ Len(e) \in Nat /\ Len(data) \in Nat
      /\ \A i \in 1 .. Len(e) : e[i] = IF i <= Len(data) THEN data[i] ELSE NoArray
  BY <1>2, Extends DEF Grown, IsStore
<1>4. k \in Nat /\ k <= Len(e) /\ ds = SubSeq(e, 1, k)
  BY <1>1, <1>2, <1>3
<1>5. ds \in Seq(Arrays) /\ Len(ds) = k /\ \A i \in 1 .. k : ds[i] = e[i] /\ i \in 1 .. Len(e)
  BY <1>3, <1>4
<1>. QED  BY <1>1, <1>3, <1>4, <1>5 DEF Grown, IsStore

(* The items added hold nothing. *)
LEMMA GrownSame ==
    ASSUME NEW ds, Grown(ds), NEW q \in Nat
    PROVE  QuantumAt(ds, q) = QuantumAt(data, q)
<1>1. PICK k \in Nat : k = Item(q)
  BY Spot
<1>2. k < Len(ds) => k + 1 \in 1 .. Len(ds)
  BY <1>1 DEF Grown
<1>3. k < Len(data) => ds[k + 1] = data[k + 1] /\ k < Len(ds)
  BY <1>1, <1>2 DEF Grown
<1>4. ~(k < Len(data)) /\ k < Len(ds) => ds[k + 1] = NoArray
  BY <1>1, <1>2 DEF Grown
<1>. QED  BY <1>1, <1>3, <1>4 DEF QuantumAt, Grown

LEMMA Updated ==
    ASSUME NEW S, NEW s \in Seq(S), NEW j \in 1 .. Len(s), NEW v \in S, NEW r,
           r = [s EXCEPT ![j] = v]
    PROVE  /\ r \in Seq(S) /\ Len(r) = Len(s)
           /\ \A i \in 1 .. Len(s) : r[i] = IF i = j THEN v ELSE s[i]
OBVIOUS

(* A quantum is stored in an item that has an array. *)
PutAt(ds, p, v) == [ds EXCEPT ![Item(p) + 1][SPos(p) + 1] = v]

LEMMA Stored ==
    ASSUME NEW ds, IsStore(ds), NEW p \in Nat, Item(p) < Len(ds), ds[Item(p) + 1] # NoArray,
           NEW v \in Quanta, NEW es, es = PutAt(ds, p, v)
    PROVE  /\ IsStore(es) /\ Len(es) = Len(ds) /\ es[Item(p) + 1] # NoArray
           /\ \A q \in Nat : QuantumAt(es, q) = IF Item(q) = Item(p) /\ SPos(q) = SPos(p)
                                                THEN v ELSE QuantumAt(ds, q)
<1>1. PICK j, m : j = Item(p) + 1 /\ m = SPos(p) + 1
  OBVIOUS
<1>2. /\ ds \in Seq(Arrays) /\ Len(ds) \in Nat /\ j \in 1 .. Len(ds) /\ m \in 1 .. Qset
  <2>1. ds \in Seq(Arrays) /\ Len(ds) \in Nat
    BY DEF IsStore
  <2>2. PICK k \in Nat : k = Item(p)
    BY Spot
  <2>3. j \in 1 .. Len(ds)
    BY <1>1, <2>1, <2>2
  <2>. QED  BY <1>1, <2>1, <2>3, Spot
<1>3. ds[j] \in [1 .. Qset -> Quanta]
  BY <1>1, <1>2 DEF Arrays
<1>4. PICK arr : arr = [ds[j] EXCEPT ![m] = v]
  OBVIOUS
<1>5. arr \in [1 .. Qset -> Quanta] /\ arr # NoArray
      /\ \A n \in 1 .. Qset : arr[n] = IF n = m THEN v ELSE ds[j][n]
  BY <1>2, <1>3, <1>4, NoneIsNone
<1>6. es = [ds EXCEPT ![j] = arr]
  BY <1>1, <1>4 DEF PutAt
<1>7. es \in Seq(Arrays) /\ Len(es) = Len(ds)
      /\ \A i \in 1 .. Len(ds) : es[i] = IF i = j THEN arr ELSE ds[i]
  <2>1. arr \in Arrays
    BY <1>5 DEF Arrays
  <2>2. \A r : r = [ds EXCEPT ![j] = arr] =>
              /\ r \in Seq(Arrays) /\ Len(r) = Len(ds)
              /\ \A i \in 1 .. Len(ds) : r[i] = IF i = j THEN arr ELSE ds[i]
    BY <1>2, <2>1, Updated
  <2>. QED  BY <1>6, <2>2
<1>8. ASSUME NEW q \in Nat
      PROVE  QuantumAt(es, q) = IF Item(q) = Item(p) /\ SPos(q) = SPos(p)
                                THEN v ELSE QuantumAt(ds, q)
  <2>1. PICK k \in Nat, n \in 1 .. Qset : k = Item(q) /\ n = SPos(q) + 1
    BY Spot
  <2>2. k < Len(ds) => k + 1 \in 1 .. Len(ds)
    BY <1>2
  <2>3. k = Item(p) <=> k + 1 = j
    <3>1. PICK a \in Nat : a = Item(p)
      BY Spot
    <3>2. a + 1 = k + 1 <=> a = k
      OBVIOUS
    <3>. QED  BY <1>1, <3>1, <3>2
  <2>4. SPos(q) = SPos(p) <=> n = m
    <3>1. PICK a \in Nat, b \in Nat : a = SPos(q) /\ b = SPos(p)
      BY Spot
    <3>2. a + 1 = b + 1 <=> a = b
      OBVIOUS
    <3>. QED  BY <1>1, <2>1, <3>1, <3>2
  <2>5. CASE k >= Len(ds)
    BY <1>1, <1>2, <1>7, <2>1, <2>3, <2>5 DEF QuantumAt
  <2>6. CASE k < Len(ds) /\ k + 1 = j
    <3>1. es[k + 1] = arr /\ ~(k >= Len(ds)) /\ ds[k + 1] # NoArray
      BY <1>1, <1>2, <1>7, <2>6
    <3>. QED  BY <1>1, <1>5, <1>7, <2>1, <2>3, <2>4, <2>6, <3>1 DEF QuantumAt
  <2>7. CASE k < Len(ds) /\ k + 1 # j
    <3>1. es[k + 1] = ds[k + 1]
      BY <1>7, <2>2, <2>7
    <3>. QED  BY <1>7, <2>1, <2>3, <2>7, <3>1 DEF QuantumAt
  <2>. QED  BY <1>2, <2>5, <2>6, <2>7
<1>. QED  BY <1>1, <1>2, <1>5, <1>7, <1>8 DEF IsStore

LEMMA ArrayMade ==
    ASSUME IsStore(data), NEW p \in Nat, NEW ds, ds = WithArray(p)
    PROVE  /\ IsStore(ds) /\ Item(p) < Len(ds) /\ Len(ds) = Len(Extended(Item(p)))
           /\ ds[Item(p) + 1] # NoArray
           /\ \A q \in Nat : QuantumAt(ds, q) = QuantumAt(data, q)
<1>1. PICK e, j : e = Extended(Item(p)) /\ j = Item(p) + 1
  OBVIOUS
<1>2. Item(p) \in Nat /\ Grown(e) /\ Len(e) > Item(p) /\ Len(e) \in Nat
  BY <1>1, Spot, Extends DEF Grown
<1>3. e \in Seq(Arrays) /\ j \in 1 .. Len(e) /\ \A q \in Nat : QuantumAt(e, q) = QuantumAt(data, q)
  BY <1>1, <1>2, GrownSame DEF Grown, IsStore
<1>4. CASE e[j] # NoArray
  BY <1>1, <1>2, <1>3, <1>4 DEF WithArray, IsStore
<1>5. CASE e[j] = NoArray
  <2>1. PICK arr : arr = [i \in 1 .. Qset |-> NoQuantum]
    OBVIOUS
  <2>2. arr \in [1 .. Qset -> Quanta] /\ arr # NoArray /\ \A i \in 1 .. Qset : arr[i] = NoQuantum
    BY <2>1, NoneIsNone DEF Quanta
  <2>3. ds = [e EXCEPT ![j] = arr]
    BY <1>1, <1>5, <2>1 DEF WithArray
  <2>4. ds \in Seq(Arrays) /\ Len(ds) = Len(e)
        /\ \A i \in 1 .. Len(e) : ds[i] = IF i = j THEN arr ELSE e[i]
    BY <1>3, <2>2, <2>3 DEF Arrays
  <2>5. ASSUME NEW q \in Nat PROVE QuantumAt(ds, q) = QuantumAt(e, q)
    <3>1. PICK k \in Nat, n \in 1 .. Qset : k = Item(q) /\ n = SPos(q) + 1
      BY Spot
    <3>2. CASE k >= Len(e)
      BY <2>4, <3>1, <3>2 DEF QuantumAt
    <3>3. CASE k < Len(e) /\ k + 1 = j
      <4>1. ds[k + 1] = arr /\ e[k + 1] = NoArray
        BY <1>3, <1>5, <2>4, <3>3
      <4>. QED  BY <2>2, <3>1, <4>1 DEF QuantumAt
    <3>4. CASE k < Len(e) /\ k + 1 # j
      <4>1. ds[k + 1] = e[k + 1]
        BY <1>2, <2>4, <3>4
      <4>. QED  BY <2>4, <3>1, <4>1 DEF QuantumAt
    <3>. QED  BY <1>2, <3>2, <3>3, <3>4
  <2>. QED  BY <1>1, <1>2, <1>3, <2>2, <2>4, <2>5 DEF IsStore
<1>. QED  BY <1>4, <1>5

(* The quantum that is made holds what the memory held. *)
Unset == [i \in 1 .. Quantum |-> Junk]

LEMMA QuantumMade ==
    ASSUME IsStore(data), NEW p \in Nat, NEW ds, ds = WithQuantum(p)
    PROVE  /\ IsStore(ds) /\ Item(p) < Len(ds) /\ Len(ds) = Len(Extended(Item(p)))
           /\ ds[Item(p) + 1] # NoArray
           /\ \A q \in Nat : QuantumAt(ds, q) =
                  IF Item(q) = Item(p) /\ SPos(q) = SPos(p) /\ QuantumAt(data, q) = NoQuantum
                  THEN Unset ELSE QuantumAt(data, q)
<1>1. PICK e : e = WithArray(p)
  OBVIOUS
<1>2. /\ IsStore(e) /\ Item(p) < Len(e) /\ Len(e) = Len(Extended(Item(p)))
      /\ e[Item(p) + 1] # NoArray /\ \A q \in Nat : QuantumAt(e, q) = QuantumAt(data, q)
  BY <1>1, ArrayMade
<1>3. QuantumAt(e, p) = e[Item(p) + 1][SPos(p) + 1]
  <2>1. ~(Item(p) >= Len(e))
    <3>1. PICK k \in Nat : k = Item(p)
      BY Spot
    <3>2. Len(e) \in Nat
      BY <1>2 DEF IsStore
    <3>. QED  BY <1>2, <3>1, <3>2
  <2>. QED  BY <1>2, <2>1 DEF QuantumAt
<1>4. \A q \in Nat : Item(q) = Item(p) /\ SPos(q) = SPos(p) => QuantumAt(e, q) = QuantumAt(e, p)
  BY DEF QuantumAt
<1>5. CASE e[Item(p) + 1][SPos(p) + 1] # NoQuantum
  <2>1. ds = e
    BY <1>1, <1>5 DEF WithQuantum
  <2>. QED  BY <1>2, <1>3, <1>4, <1>5, <2>1
<1>6. CASE e[Item(p) + 1][SPos(p) + 1] = NoQuantum
  <2>1. Unset \in Quanta
    BY DEF Unset, Quanta, Bytes
  <2>2. ds = [e EXCEPT ![Item(p) + 1][SPos(p) + 1] = Unset]
    BY <1>1, <1>6 DEF WithQuantum, Unset
  <2>3. /\ IsStore(ds) /\ Len(ds) = Len(e) /\ ds[Item(p) + 1] # NoArray
        /\ \A q \in Nat : QuantumAt(ds, q) = IF Item(q) = Item(p) /\ SPos(q) = SPos(p)
                                             THEN Unset ELSE QuantumAt(e, q)
    <3>1. ds = PutAt(e, p, Unset)
      BY <2>2 DEF PutAt
    <3>. QED  BY <1>2, <2>1, <3>1, Stored
  <2>. QED  BY <1>2, <1>3, <1>4, <1>6, <2>3
<1>. QED  BY <1>5, <1>6

LEMMA QuantumTyped ==
    ASSUME NEW ds, IsStore(ds), NEW q \in Nat
    PROVE  /\ QuantumAt(ds, q) \in Quanta
           /\ QuantumAt(ds, q) # NoQuantum => QuantumAt(ds, q) \in [1 .. Quantum -> Bytes]
<1>1. PICK k \in Nat, m \in 1 .. Qset : k = Item(q) /\ m = SPos(q) + 1
  BY Spot
<1>2. ds \in Seq(Arrays) /\ Len(ds) \in Nat
  BY DEF IsStore
<1>3. k >= Len(ds) \/ k + 1 \in 1 .. Len(ds)
  BY <1>2
<1>4. k + 1 \in 1 .. Len(ds) => ds[k + 1] \in Arrays
  BY <1>2
<1>5. QuantumAt(ds, q) \in Quanta
  BY <1>1, <1>3, <1>4 DEF QuantumAt, Quanta, Arrays
<1>. QED  BY <1>5 DEF Quanta

(* The byte at a position. *)
Value(ds, q) == IF QuantumAt(ds, q) = NoQuantum THEN Junk ELSE QuantumAt(ds, q)[QPos(q) + 1]

LEMMA Offsets ==
    ASSUME NEW b \in Nat, NEW s \in Nat, b <= s, NEW c \in Nat, NEW n \in Nat, n <= b - c,
           NEW d \in Nat, d + 1 \in 1 .. b, NEW x, x = IF d >= c THEN d - c ELSE d - c + s
    PROVE  /\ x + 1 \in 1 .. n <=> (d + 1) - c \in 1 .. n
           /\ x + 1 \in 1 .. n => x + 1 = (d + 1) - c
<1>1. CASE d >= c
  BY <1>1
<1>2. CASE d < c
  <2>1. x + 1 = d - c + s + 1 /\ x + 1 > n /\ (d + 1) - c < 1
    BY <1>2
  <2>. QED  BY <2>1
<1>. QED  BY <1>1, <1>2

LEMMA CopiesInPlace ==
    ASSUME IsStore(data), NEW p \in Nat, NEW bs \in Seq(Values), Len(bs) <= Quantum - QPos(p),
           NEW ds, ds = Copied(p, bs)
    PROVE  /\ IsStore(ds) /\ Item(p) < Len(ds) /\ Len(ds) = Len(Extended(Item(p)))
           /\ \A q \in 0 .. Span - 1 :
                 Value(ds, q) = IF Flat!Cell(q - p) + 1 \in DOMAIN bs
                                THEN bs[Flat!Cell(q - p) + 1] ELSE Value(data, q)
<1>1. PICK w : w = WithQuantum(p)
  OBVIOUS
<1>2. /\ IsStore(w) /\ Item(p) < Len(w) /\ Len(w) = Len(Extended(Item(p)))
      /\ w[Item(p) + 1] # NoArray
      /\ \A q \in Nat : QuantumAt(w, q) =
             IF Item(q) = Item(p) /\ SPos(q) = SPos(p) /\ QuantumAt(data, q) = NoQuantum
             THEN Unset ELSE QuantumAt(data, q)
  BY <1>1, QuantumMade
<1>3. PICK old : old = w[Item(p) + 1][SPos(p) + 1]
  OBVIOUS
<1>4. old = QuantumAt(w, p)
  <2>1. Item(p) \in Nat
    BY Spot
  <2>2. Len(w) \in Nat
    BY <1>2 DEF IsStore
  <2>3. ~(Item(p) >= Len(w))
    BY <1>2, <2>1, <2>2
  <2>. QED  BY <1>2, <1>3, <2>3 DEF QuantumAt
<1>5. \A q \in Nat : Item(q) = Item(p) /\ SPos(q) = SPos(p) =>
          QuantumAt(data, q) = QuantumAt(data, p)
  BY DEF QuantumAt
<1>6. old = IF QuantumAt(data, p) = NoQuantum THEN Unset ELSE QuantumAt(data, p)
  BY <1>2, <1>4
<1>7. old \in [1 .. Quantum -> Bytes]
  <2>1. Unset \in [1 .. Quantum -> Bytes]
    BY DEF Unset, Bytes
  <2>. QED  BY <1>6, <2>1, QuantumTyped
<1>8. PICK c \in Nat, n \in Nat : c = QPos(p) /\ n = Len(bs) /\ DOMAIN bs = 1 .. n
  <2>1. QPos(p) \in Nat
    BY Spot
  <2>2. Len(bs) \in Nat /\ DOMAIN bs = 1 .. Len(bs)
    OBVIOUS
  <2>. QED  BY <2>1, <2>2
<1>9. PICK new : new = [i \in 1 .. Quantum |-> IF i - c \in 1 .. n THEN bs[i - c] ELSE old[i]]
  OBVIOUS
<1>10. new \in [1 .. Quantum -> Bytes]
  <2>1. ASSUME NEW i \in 1 .. Quantum
        PROVE  (IF i - c \in 1 .. n THEN bs[i - c] ELSE old[i]) \in Bytes
    <3>1. \A j \in 1 .. n : bs[j] \in Values
      BY <1>8
    <3>. QED  BY <1>7, <3>1 DEF Bytes
  <2>. QED  BY <1>9, <2>1
<1>11. new \in Quanta
  BY <1>10 DEF Quanta
<1>12. ds = PutAt(w, p, new)
  BY <1>1, <1>3, <1>8, <1>9 DEF Copied, PutAt
<1>13. /\ IsStore(ds) /\ Len(ds) = Len(w)
       /\ \A q \in Nat : QuantumAt(ds, q) = IF Item(q) = Item(p) /\ SPos(q) = SPos(p)
                                            THEN new ELSE QuantumAt(w, q)
  BY <1>2, <1>11, <1>12, Stored
<1>14. ASSUME NEW q \in 0 .. Span - 1
       PROVE  Value(ds, q) = IF Flat!Cell(q - p) + 1 \in DOMAIN bs
                             THEN bs[Flat!Cell(q - p) + 1] ELSE Value(data, q)
  <2>. q \in Nat
    BY ItemSizeIs
  <2>0. PICK d \in Nat, x \in Int : /\ d = QPos(q) /\ x = Flat!Cell(q - p) /\ d + 1 \in 1 .. Quantum
                                    /\ x \in 0 .. Span - 1
    <3>1. QPos(q) \in Nat /\ QPos(q) + 1 \in 1 .. Quantum
      BY Spot
    <3>2. Flat!Cell(q - p) \in 0 .. Span - 1
      BY Shifts
    <3>3. Flat!Cell(q - p) \in Int
      BY <3>2, ItemSizeIs
    <3>. QED  BY <3>1, <3>2, <3>3
  <2>1. CASE Item(q) = Item(p) /\ SPos(q) = SPos(p)
    <3>1. x = IF d >= c THEN d - c ELSE d - c + Span
      BY <1>8, <2>0, <2>1, Apart
    <3>2. n <= Quantum - c /\ Quantum \in Nat /\ Span \in Nat /\ Span >= Quantum
      <4>1. Quantum \in Nat /\ Span \in Nat /\ Span >= Quantum
        BY ItemSizeIs
      <4>. QED  BY <1>8, <4>1
    <3>3. /\ x + 1 \in 1 .. n <=> (d + 1) - c \in 1 .. n
          /\ x + 1 \in 1 .. n => x + 1 = (d + 1) - c
      <4>1. PICK b \in Nat, s \in Nat : b = Quantum /\ s = Span
        BY <3>2
      <4>2. /\ b <= s /\ n <= b - c /\ d + 1 \in 1 .. b
            /\ x = IF d >= c THEN d - c ELSE d - c + s
        BY <1>8, <2>0, <3>1, <3>2, <4>1
      <4>3. c \in Nat /\ n \in Nat /\ d \in Nat
        BY <1>8, <2>0
      <4>. QED  BY <4>1, <4>2, <4>3, Offsets
    <3>4. Value(ds, q) = new[d + 1]
      BY <1>10, <1>13, <2>0, <2>1, NoneIsNone DEF Value
    <3>5. new[d + 1] = IF x + 1 \in 1 .. n THEN bs[x + 1] ELSE old[d + 1]
      BY <1>9, <2>0, <3>3
    <3>6. old[d + 1] = Value(data, q)
      BY <1>5, <1>6, <2>0, <2>1 DEF Value, Unset
    <3>. QED  BY <1>8, <2>0, <3>4, <3>5, <3>6
  <2>2. CASE ~(Item(q) = Item(p) /\ SPos(q) = SPos(p))
    <3>1. ~(x + c \in 0 .. Quantum - 1)
      BY <1>8, <2>0, <2>2, Apart
    <3>2. ~(x + 1 \in 1 .. n)
      <4>1. n <= Quantum - c /\ Quantum \in Nat
        BY <1>8, ItemSizeIs
      <4>. QED  BY <3>1, <4>1
    <3>3. QuantumAt(ds, q) = QuantumAt(data, q)
      BY <1>2, <1>13, <2>2
    <3>. QED  BY <1>8, <2>0, <3>2, <3>3 DEF Value
  <2>. QED  BY <2>1, <2>2
<1>. QED  BY <1>2, <1>13, <1>14

-----------------------------------------------------------------------------
(* The list reaches to the end *)

Inv == TypeOK /\ ListReachesEnd

LEMMA Data ==
    ASSUME TypeOK
    PROVE  IsStore(data) /\ Len(data) \in Nat
<1>1. data \in Seq(Arrays)
  BY DEF TypeOK, Arrays
<1>. QED  BY <1>1 DEF IsStore

LEMMA Opened ==
    ASSUME TypeOK, NEW f \in Files, mode[f] # "closed"
    PROVE  pos[f] \in Nat /\ pos[f] <= MaxPos + 1
<1>1. pos[f] \in -1 .. MaxPos + 1 /\ pos[f] # -1
  BY DEF TypeOK
<1>2. MaxPos \in Nat
  BY StoreAssumption
<1>. QED  BY <1>1, <1>2

(* The list has room for s bytes, if no wrap is involved. *)
HasRoom(ds, s) == s < Span => s <= Len(ds) * ItemSize

LEMMA Longer ==
    ASSUME TypeOK, ListReachesEnd, NEW ds, Len(ds) \in Nat, Len(ds) >= Len(data)
    PROVE  HasRoom(ds, size)
<1>. SUFFICES ASSUME size < Span PROVE size <= Len(ds) * ItemSize
  BY DEF HasRoom
<1>1. PICK n \in Nat, m \in Nat, b \in Nat : n = Len(data) /\ m = Len(ds) /\ b = ItemSize
  BY Data, ItemSizeIs
<1>2. b * n <= b * m /\ n * b = b * n /\ m * b = b * m /\ b * n \in Int /\ b * m \in Int
  <2>1. n <= m
    BY <1>1
  <2>. QED  BY <2>1, Times, SMT
<1>3. size \in Int /\ size <= n * b
  <2>1. MaxPos \in Nat /\ size \in 0 .. MaxPos + 1
    BY StoreAssumption DEF TypeOK
  <2>2. size <= n * b
    BY <1>1 DEF ListReachesEnd
  <2>. QED  BY <2>1, <2>2
<1>. QED  BY <1>1, <1>2, <1>3

(* car_follow() and the allocations of a write make the list no shorter.   *)
LEMMA Followed ==
    ASSUME TypeOK, ListReachesEnd, NEW p \in Nat,
           NEW ds, ds \in Stopped(Item(p)) \cup {Extended(Item(p)), WithArray(p)}
    PROVE  /\ IsStore(ds) /\ HasRoom(ds, size)
           /\ \A q \in Nat : QuantumAt(ds, q) = QuantumAt(data, q)
<1>1. IsStore(data) /\ Item(p) \in Nat
  BY Data, Spot
<1>2. CASE Grown(ds)
  BY <1>2, GrownSame, Longer DEF Grown
<1>3. CASE ds = WithArray(p)
  <2>1. /\ IsStore(ds) /\ Len(ds) = Len(Extended(Item(p)))
        /\ \A q \in Nat : QuantumAt(ds, q) = QuantumAt(data, q)
    BY <1>1, <1>3, ArrayMade
  <2>2. Grown(Extended(Item(p)))
    BY <1>1, Extends
  <2>. QED  BY <2>1, <2>2, Longer DEF Grown
<1>. QED  BY <1>1, <1>2, <1>3, Extends, StopsGrown

(* What a call takes of its buffer. *)
Takes(f, bs, n, bytes) == n = Room(pos[f], bs) /\ bytes = SubSeq(bs, 1, n)

LEMMA Taken ==
    ASSUME TypeOK, NEW f \in Files, mode[f] \in {"w", "rw"}, NEW bs \in Buffers,
           NEW n, NEW bytes, Takes(f, bs, n, bytes)
    PROVE  /\ n \in Nat /\ n <= Len(bs) /\ n <= Quantum - QPos(pos[f]) /\ n <= Quantum
           /\ bs \in Seq(Values) /\ bytes \in Seq(Values) /\ Len(bytes) = n
           /\ \A i \in 1 .. n : bytes[i] = bs[i] /\ bs[i] \in Values
<1>1. PICK k \in 0 .. MaxCall : bs \in [1 .. k -> Values]
  BY DEF Buffers
<1>2. k \in Nat
  BY <1>1, StoreAssumption
<1>3. bs \in Seq(Values) /\ Len(bs) = k
  BY <1>1, <1>2
<1>4. PICK c \in Nat : c = QPos(pos[f]) /\ c + 1 \in 1 .. Quantum
  BY Opened, Spot
<1>5. n = IF k < Quantum - c THEN k ELSE Quantum - c
  BY <1>3, <1>4 DEF Room, Least, Takes
<1>6. n \in Nat /\ n <= k /\ n <= Quantum - c /\ n <= Quantum
  BY <1>2, <1>4, <1>5, ItemSizeIs
<1>7. bytes \in Seq(Values) /\ Len(bytes) = n /\ \A i \in 1 .. n : bytes[i] = bs[i]
  BY <1>2, <1>3, <1>6 DEF Takes
<1>8. \A i \in 1 .. n : bs[i] \in Values
  BY <1>2, <1>3, <1>6
<1>. QED  BY <1>3, <1>4, <1>6, <1>7, <1>8

(* A write of n bytes reaches no further than the item it is in. *)
LEMMA Reached ==
    ASSUME TypeOK, ListReachesEnd, NEW p \in Nat, NEW n \in Nat, n <= Quantum - QPos(p),
           NEW ds, IsStore(ds), Item(p) < Len(ds), Len(ds) = Len(Extended(Item(p)))
    PROVE  HasRoom(ds, p + n) /\ HasRoom(ds, size)
<1>5. HasRoom(ds, size)
  <2>1. Grown(Extended(Item(p)))
    BY Data, Spot, Extends
  <2>. QED  BY <2>1, Longer DEF Grown
<1>. SUFFICES ASSUME p + n < Span PROVE p + n <= Len(ds) * ItemSize
  BY <1>5 DEF HasRoom
<1>0. Item(p) = Row(p)
  <2>1. p < Span
    BY ItemSizeIs
  <2>. QED  BY <2>1, NoWrap
<1>1. PICK k \in Nat, c \in Nat, l \in Nat, b \in Nat :
          k = Item(p) /\ c = QPos(p) /\ l = Len(ds) /\ b = ItemSize
  <2>1. Item(p) \in Nat /\ QPos(p) \in Nat /\ ItemSize \in Nat
    BY Spot, ItemSizeIs
  <2>2. Len(ds) \in Nat
    BY DEF IsStore
  <2>. QED  BY <2>1, <2>2
<1>2. p + (Quantum - c) <= (k + 1) * b
  BY <1>0, <1>1, QuantumEnds
<1>3. (k + 1) * b <= l * b /\ (k + 1) * b \in Int /\ l * b \in Int
  <2>1. k + 1 <= l
    BY <1>1
  <2>2. b * (k + 1) <= b * l /\ b * (k + 1) \in Int /\ b * l \in Int
    BY <2>1, Times
  <2>3. b * (k + 1) = (k + 1) * b /\ b * l = l * b
    BY SMT
  <2>. QED  BY <2>2, <2>3
<1>4. p + n <= l * b
  BY <1>1, <1>2, <1>3, ItemSizeIs
<1>. QED  BY <1>1, <1>4

LEMMA InitInv == Init => Inv
<1> SUFFICES ASSUME Init PROVE Inv
  OBVIOUS
<1>1. MaxPos \in Nat /\ Quantum \in Nat
  BY StoreAssumption
<1>2. data = <<>> /\ size = 0 /\ Len(<<>>) = 0
  BY DEF Init
<1>3. data \in Seq({NoArray} \cup [1 .. Qset -> Quanta]) /\ size \in 0 .. MaxPos + 1
  BY <1>1, <1>2
<1>4. /\ pos \in [Files -> -1 .. MaxPos + 1]
      /\ mode \in [Files -> {"closed", "r", "w", "rw"}]
      /\ \A f \in Files : pos[f] = -1 <=> mode[f] = "closed"
  BY <1>1 DEF Init
<1>5. /\ last.call = "other" /\ last.bytes = <<>>
  BY DEF Init
<1>6. last.bytes \in Seq(Bytes) /\ Len(last.bytes) <= Quantum
  BY <1>1, <1>5
<1>7. TypeOK
  BY <1>3, <1>4, <1>5, <1>6 DEF TypeOK
<1>8. Len(data) * ItemSize = 0
  BY <1>2, ItemSizeIs
<1>. QED  BY <1>2, <1>7, <1>8 DEF Inv, ListReachesEnd

(* A step that leaves the data or trims them, and reports no bytes. *)
LEMMA OtherKeeps ==
    ASSUME Inv, NEW f \in Files, NEW p \in -1 .. MaxPos + 1,
           NEW m \in {"closed", "r", "w", "rw"}, p = -1 <=> m = "closed",
           pos' = [pos EXCEPT ![f] = p], mode' = [mode EXCEPT ![f] = m],
           UNCHANGED <<data, size>> \/ Trim, Did("other", <<>>)
    PROVE  Inv'
<1>1. TypeOK /\ MaxPos \in Nat /\ Quantum \in Nat
  BY StoreAssumption DEF Inv
<1>2. /\ pos' \in [Files -> -1 .. MaxPos + 1] /\ mode' \in [Files -> {"closed", "r", "w", "rw"}]
      /\ \A g \in Files : pos'[g] = -1 <=> mode'[g] = "closed"
  BY <1>1 DEF TypeOK
<1>3. last'.call = "other" /\ last'.bytes \in Seq(Bytes) /\ Len(last'.bytes) <= Quantum
  BY <1>1 DEF Did
<1>4. CASE UNCHANGED <<data, size>>
  BY <1>1, <1>2, <1>3, <1>4 DEF Inv, TypeOK, ListReachesEnd
<1>5. CASE Trim
  <2>1. /\ data' = <<>> /\ size' = 0 /\ Len(<<>>) = 0
        /\ <<>> \in Seq({NoArray} \cup [1 .. Qset -> Quanta])
    BY <1>5 DEF Trim
  <2>2. Len(data') * ItemSize = 0 /\ size' \in 0 .. MaxPos + 1
    BY <1>1, <2>1, ItemSizeIs
  <2>3. TypeOK'
    BY <1>2, <1>3, <2>1, <2>2 DEF TypeOK
  <2>4. size' <= Len(data') * ItemSize
    BY <2>1, <2>2
  <2>. QED  BY <2>3, <2>4 DEF Inv, ListReachesEnd
<1>. QED  BY <1>4, <1>5

LEMMA Within ==
    ASSUME NEW p \in Nat, NEW n \in Nat, NEW k \in Nat, p + n <= k + 1
    PROVE  p + n \in -1 .. k + 1 /\ p + n # -1 /\ p + n \in 0 .. k + 1
OBVIOUS

(* A read, or a write of which nothing came but allocations. *)
LEMMA FollowsKeep ==
    ASSUME Inv, NEW f \in Files, mode[f] # "closed",
           data' \in Stopped(Item(pos[f])) \cup {Extended(Item(pos[f])), WithArray(pos[f])},
           UNCHANGED <<size, mode>>, NEW n \in Nat, pos[f] + n <= MaxPos + 1,
           pos' = [pos EXCEPT ![f] = @ + n],
           last'.call \in {"read", "read fails", "other"},
           last'.bytes \in Seq(Bytes), Len(last'.bytes) <= Quantum
    PROVE  Inv'
<1>1. TypeOK /\ ListReachesEnd /\ MaxPos \in Nat /\ pos[f] \in Nat
  BY StoreAssumption, Opened DEF Inv
<1>2. IsStore(data') /\ HasRoom(data', size)
  <2>1. PICK ds : ds = data'
    OBVIOUS
  <2>. QED  BY <1>1, <2>1, Followed
<1>3. pos[f] + n \in -1 .. MaxPos + 1 /\ pos[f] + n # -1
  BY <1>1, Within
<1>4. /\ pos' \in [Files -> -1 .. MaxPos + 1]
      /\ \A g \in Files : pos'[g] = -1 <=> mode[g] = "closed"
  <2>1. pos' = [pos EXCEPT ![f] = pos[f] + n]
    OBVIOUS
  <2>. QED  BY <1>1, <1>3, <2>1 DEF TypeOK
<1>5. TypeOK'
  BY <1>1, <1>2, <1>4 DEF TypeOK, IsStore, Arrays
<1>. QED  BY <1>2, <1>5 DEF Inv, ListReachesEnd, HasRoom

LEMMA CountsAre ==
    ASSUME TypeOK, NEW f \in Files, mode[f] # "closed", pos[f] < size,
           NEW count \in 1 .. MaxCall,
           NEW n, n = Least(Least(count, size - pos[f]), Quantum - QPos(pos[f]))
    PROVE  /\ n \in Nat \ {0} /\ n <= Quantum - QPos(pos[f]) /\ n <= Quantum
           /\ pos[f] + n <= size /\ pos[f] + n <= MaxPos + 1
<1>1. PICK p \in Nat, c \in Nat : p = pos[f] /\ c = QPos(p) /\ c + 1 \in 1 .. Quantum
  BY Opened, Spot
<1>2. MaxPos \in Nat /\ size \in 0 .. MaxPos + 1 /\ count \in Nat \ {0}
  <2>1. MaxPos \in Nat /\ MaxCall \in Nat
    BY StoreAssumption
  <2>2. size \in 0 .. MaxPos + 1
    BY DEF TypeOK
  <2>3. count \in Nat \ {0}
    BY <2>1
  <2>. QED  BY <2>1, <2>2, <2>3
<1>3. n = Least(Least(count, size - p), Quantum - c)
  BY <1>1
<1>4. p < size /\ Quantum \in Nat
  BY <1>1, ItemSizeIs
<1>5. /\ n \in Nat \ {0} /\ n <= Quantum - c /\ n <= Quantum
      /\ p + n <= size /\ p + n <= MaxPos + 1
  BY <1>1, <1>2, <1>3, <1>4 DEF Least
<1>. QED  BY <1>1, <1>5

(* The bytes a read copies out of a quantum. *)
LEMMA Slice ==
    ASSUME NEW v \in [1 .. Quantum -> Bytes], NEW c \in Nat, NEW n \in Nat, n <= Quantum - c
    PROVE  /\ SubSeq(v, c + 1, c + n) \in Seq(Bytes) /\ Len(SubSeq(v, c + 1, c + n)) = n
           /\ \A i \in 1 .. n : SubSeq(v, c + 1, c + n)[i] = v[c + i]
<1>1. Quantum \in Nat
  BY ItemSizeIs
<1>2. v \in Seq(Bytes) /\ Len(v) = Quantum
  BY <1>1
<1>3. c + n <= Quantum
  BY <1>1
<1>. QED  BY <1>1, <1>2, <1>3

LEMMA ReadsKeep ==
    ASSUME Inv, NEW f \in Files, ReadsAtEnd(f) \/ \E count \in 1 .. MaxCall : Reads(f, count)
    PROVE  Inv'
<1>1. TypeOK /\ ListReachesEnd /\ Quantum \in Nat /\ mode[f] # "closed"
      /\ pos[f] \in Nat /\ pos[f] <= MaxPos + 1 /\ MaxPos \in Nat
  BY StoreAssumption, Opened DEF Inv, ReadsAtEnd, Reads
<1>2. <<>> \in Seq(Bytes) /\ Len(<<>>) = 0
  OBVIOUS
<1>3. CASE ReadsAtEnd(f)
  <2>1. /\ UNCHANGED <<data, size, mode>> /\ last' = [call |-> "read", bytes |-> <<>>]
        /\ pos' = [pos EXCEPT ![f] = @ + 0]
    BY <1>2, <1>3 DEF ReadsAtEnd, ReadReturns, Did
  <2>2. pos[f] + 0 = pos[f]
    BY <1>1
  <2>3. pos' = pos
    BY <1>1, <2>1, <2>2 DEF TypeOK
  <2>4. last'.call = "read" /\ last'.bytes = <<>>
    BY <2>1
  <2>5. last'.bytes \in Seq(Bytes) /\ Len(last'.bytes) <= Quantum
    BY <1>1, <1>2, <2>4
  <2>6. TypeOK'
    BY <1>1, <2>1, <2>3, <2>4, <2>5 DEF TypeOK
  <2>. QED  BY <1>1, <2>1, <2>6 DEF Inv, ListReachesEnd
<1>4. ASSUME NEW count \in 1 .. MaxCall, Reads(f, count) PROVE Inv'
  <2>1. PICK n : n = Least(Least(count, size - pos[f]), Quantum - QPos(pos[f]))
    OBVIOUS
  <2>2. PICK v : v = QuantumAt(data', pos[f])
    OBVIOUS
  <2>3. PICK bs : bs = SubSeq(v, QPos(pos[f]) + 1, QPos(pos[f]) + n)
    OBVIOUS
  <2>4. /\ pos[f] < size /\ UNCHANGED <<size, mode>>
        /\ data' \in Stopped(Item(pos[f])) \cup {Extended(Item(pos[f])), WithArray(pos[f])}
        /\ \/ ReadReturns(f, <<>>)
           \/ v # NoQuantum /\ ReadReturns(f, bs)
           \/ Did("read fails", <<>>) /\ UNCHANGED pos
    BY <1>4, <2>1, <2>2, <2>3 DEF Reads
  <2>5. n \in Nat \ {0} /\ n <= Quantum - QPos(pos[f]) /\ n <= Quantum /\ pos[f] + n <= MaxPos + 1
    BY <1>1, <2>1, <2>4, CountsAre
  <2>6. IsStore(data')
    <3>1. PICK ds : ds = data'
      OBVIOUS
    <3>. QED  BY <1>1, <2>4, <3>1, Followed
  <2>7. CASE v # NoQuantum /\ ReadReturns(f, bs)
    <3>1. v \in [1 .. Quantum -> Bytes]
      <4>1. PICK ds : ds = data'
        OBVIOUS
      <4>. QED  BY <1>1, <2>2, <2>6, <2>7, <4>1, QuantumTyped
    <3>2. bs \in Seq(Bytes) /\ Len(bs) = n
      <4>1. PICK c \in Nat : c = QPos(pos[f])
        BY <1>1, Spot
      <4>. QED  BY <2>3, <2>5, <3>1, <4>1, Slice
    <3>3. pos' = [pos EXCEPT ![f] = @ + n] /\ last' = [call |-> "read", bytes |-> bs]
      BY <2>7, <3>2 DEF ReadReturns, Did
    <3>. QED  BY <1>1, <2>4, <2>5, <3>2, <3>3, FollowsKeep
  <2>8. CASE ReadReturns(f, <<>>) \/ (Did("read fails", <<>>) /\ UNCHANGED pos)
    <3>1. pos[f] + 0 = pos[f] /\ pos[f] + 0 <= MaxPos + 1 /\ 0 \in Nat
      BY <1>1
    <3>2. pos' = [pos EXCEPT ![f] = @ + 0]
      <4>1. CASE UNCHANGED pos
        BY <1>1, <3>1, <4>1 DEF TypeOK
      <4>2. CASE ReadReturns(f, <<>>)
        BY <1>2, <4>2 DEF ReadReturns
      <4>. QED  BY <2>8, <4>1, <4>2
    <3>3. last'.call \in {"read", "read fails", "other"} /\ last'.bytes = <<>>
      <4>1. CASE ReadReturns(f, <<>>)
        BY <4>1 DEF ReadReturns, Did
      <4>2. CASE Did("read fails", <<>>)
        BY <4>2 DEF Did
      <4>. QED  BY <2>8, <4>1, <4>2
    <3>4. last'.bytes \in Seq(Bytes) /\ Len(last'.bytes) <= Quantum
      <4>1. last'.bytes \in Seq(Bytes) /\ Len(last'.bytes) = 0
        BY <1>2, <3>3
      <4>2. 0 <= Quantum
        BY <1>1
      <4>. QED  BY <4>1, <4>2
    <3>. QED  BY <1>1, <2>4, <3>1, <3>2, <3>3, <3>4, FollowsKeep
  <2>. QED  BY <2>4, <2>7, <2>8
<1>. QED  BY <1>3, <1>4

LEMMA WritesKeep ==
    ASSUME Inv, NEW f \in Files, NEW bs \in Buffers, pos[f] + Len(bs) <= MaxPos + 1,
           Writes(f, bs) \/ (\E k \in 0 .. MaxCall : WritesFault(f, bs, k))
    PROVE  Inv'
<1>1. /\ TypeOK /\ ListReachesEnd /\ Quantum \in Nat /\ mode[f] \in {"w", "rw"}
      /\ UNCHANGED mode
  BY StoreAssumption DEF Inv, Writes, WritesFault
<1>2. PICK p \in Nat : p = pos[f]
  BY <1>1, Opened
<1>3. PICK n, bytes : n = Room(pos[f], bs) /\ bytes = SubSeq(bs, 1, n)
  OBVIOUS
<1>4. /\ n \in Nat /\ n <= Len(bs) /\ n <= Quantum - QPos(p) /\ n <= Quantum
      /\ bs \in Seq(Values) /\ bytes \in Seq(Values) /\ Len(bytes) = n
      /\ \A i \in 1 .. n : bytes[i] = bs[i] /\ bs[i] \in Values
  <2>1. Takes(f, bs, n, bytes)
    BY <1>3 DEF Takes
  <2>. QED  BY <1>1, <1>2, <2>1, Taken
<1>5. /\ MaxPos \in Nat /\ size \in 0 .. MaxPos + 1
      /\ bytes \in Seq(Bytes) /\ Len(bytes) <= Quantum
  <2>1. bytes \in Seq(Bytes)
    BY <1>4 DEF Bytes
  <2>. QED  BY <1>1, <1>4, <2>1, StoreAssumption DEF TypeOK
<1>6. ASSUME NEW cs \in Seq(Values), Len(cs) = n, data' = Copied(p, cs)
      PROVE  IsStore(data') /\ HasRoom(data', p + n) /\ HasRoom(data', size)
  <2>1. PICK ds : ds = Copied(p, cs)
    OBVIOUS
  <2>2. IsStore(ds) /\ Item(p) < Len(ds) /\ Len(ds) = Len(Extended(Item(p)))
    BY <1>1, <1>4, <1>6, <2>1, Data, CopiesInPlace
  <2>3. HasRoom(ds, p + n) /\ HasRoom(ds, size)
    BY <1>1, <1>4, <2>2, Reached
  <2>. QED  BY <1>6, <2>1, <2>2, <2>3
<1>7. CASE Writes(f, bs)
  <2>1. /\ data' = Copied(p, bytes) /\ last' = [call |-> "write", bytes |-> bytes]
        /\ pos' = [pos EXCEPT ![f] = p + n] /\ size' = IF size < pos'[f] THEN pos'[f] ELSE size
    BY <1>2, <1>3, <1>4, <1>7 DEF Writes, Did
  <2>2. IsStore(data') /\ HasRoom(data', p + n) /\ HasRoom(data', size)
    BY <1>4, <1>6, <2>1
  <2>3. p + n <= MaxPos + 1 /\ p + n \in Nat
    <3>1. p + Len(bs) <= MaxPos + 1 /\ Len(bs) \in Nat
      BY <1>2, <1>4
    <3>. QED  BY <1>4, <1>5, <3>1
  <2>4. p + n \in -1 .. MaxPos + 1 /\ p + n # -1 /\ p + n \in 0 .. MaxPos + 1
    BY <1>5, <2>3
  <2>5. pos'[f] = p + n
    BY <1>1, <2>1 DEF TypeOK
  <2>6. /\ pos' \in [Files -> -1 .. MaxPos + 1]
        /\ \A g \in Files : pos'[g] = -1 <=> mode[g] = "closed"
    BY <1>1, <2>1, <2>4 DEF TypeOK
  <2>7. size' \in 0 .. MaxPos + 1 /\ HasRoom(data', size')
    BY <1>5, <2>1, <2>2, <2>4, <2>5
  <2>8. TypeOK'
    BY <1>1, <1>5, <2>1, <2>2, <2>6, <2>7 DEF TypeOK, IsStore, Arrays
  <2>. QED  BY <2>7, <2>8 DEF Inv, ListReachesEnd, HasRoom
<1>8. ASSUME NEW k \in 0 .. MaxCall, WritesFault(f, bs, k) PROVE Inv'
  <2>1. PICK cs : cs = [i \in 1 .. n |-> IF i <= k THEN bs[i] ELSE Zero]
    OBVIOUS
  <2>2. cs \in [1 .. n -> Values]
    BY <1>4, <2>1, StoreAssumption
  <2>3. cs \in Seq(Values) /\ Len(cs) = n
    BY <1>4, <2>2
  <2>4. /\ data' = Copied(p, cs) /\ last' = [call |-> "write fails", bytes |-> bytes]
        /\ UNCHANGED <<size, pos>>
    BY <1>2, <1>3, <1>8, <2>1 DEF WritesFault, Did
  <2>5. IsStore(data') /\ HasRoom(data', size)
    BY <1>6, <2>3, <2>4
  <2>6. TypeOK'
    BY <1>1, <1>5, <2>4, <2>5 DEF TypeOK, IsStore, Arrays
  <2>. QED  BY <2>4, <2>5, <2>6 DEF Inv, ListReachesEnd, HasRoom
<1>. QED  BY <1>7, <1>8

LEMMA AllocationsKeep ==
    ASSUME Inv, NEW f \in Files, WritesNoMemory(f)
    PROVE  Inv'
<1>1. /\ mode[f] # "closed" /\ UNCHANGED <<size, pos, mode>> /\ TypeOK
      /\ data' \in Stopped(Item(pos[f])) \cup {Extended(Item(pos[f])), WithArray(pos[f])}
  BY DEF Inv, WritesNoMemory
<1>2. pos[f] \in Nat /\ pos[f] <= MaxPos + 1
  BY <1>1, Opened
<1>3. pos[f] + 0 = pos[f] /\ pos[f] + 0 <= MaxPos + 1 /\ 0 \in Nat
  BY <1>2
<1>4. pos' = [pos EXCEPT ![f] = @ + 0]
  BY <1>1, <1>3 DEF TypeOK
<1>5. last'.call = "other" /\ last'.bytes = <<>>
  BY DEF WritesNoMemory, Did
<1>6. last'.bytes \in Seq(Bytes) /\ Len(last'.bytes) = 0 /\ 0 <= Quantum
  BY <1>5, ItemSizeIs
<1>7. last'.call \in {"read", "read fails", "other"} /\ Len(last'.bytes) <= Quantum
  BY <1>5, <1>6
<1>. QED  BY <1>1, <1>3, <1>4, <1>6, <1>7, FollowsKeep

LEMMA OpensKeep ==
    ASSUME Inv, NEW f \in Files,
           \/ \E m \in {"r", "w", "rw"} : Open(f, m)
           \/ Release(f)
           \/ \E newpos \in -1 .. MaxPos : Seeks(f, newpos)
    PROVE  Inv'
<1>1. TypeOK /\ MaxPos \in Nat
  BY StoreAssumption DEF Inv
<1>2. ASSUME NEW m \in {"r", "w", "rw"}, Open(f, m) PROVE Inv'
  <2>1. 0 \in -1 .. MaxPos + 1 /\ (0 = -1 <=> m = "closed")
    BY <1>1
  <2>2. /\ pos' = [pos EXCEPT ![f] = 0] /\ mode' = [mode EXCEPT ![f] = m]
        /\ (UNCHANGED <<data, size>> \/ Trim) /\ Did("other", <<>>)
    BY <1>2 DEF Open
  <2>. QED  BY <2>1, <2>2, OtherKeeps
<1>3. CASE Release(f)
  <2>1. -1 \in -1 .. MaxPos + 1
    BY <1>1
  <2>2. /\ pos' = [pos EXCEPT ![f] = -1] /\ mode' = [mode EXCEPT ![f] = "closed"]
        /\ UNCHANGED <<data, size>> /\ Did("other", <<>>)
    BY <1>3 DEF Release
  <2>. QED  BY <2>1, <2>2, OtherKeeps
<1>4. ASSUME NEW newpos \in -1 .. MaxPos, Seeks(f, newpos) PROVE Inv'
  <2>1. newpos \in -1 .. MaxPos + 1 /\ newpos # -1
    BY <1>1, <1>4 DEF Seeks
  <2>2. /\ mode[f] # "closed" /\ mode[f] \in {"closed", "r", "w", "rw"}
        /\ mode' = [mode EXCEPT ![f] = mode[f]]
    BY <1>1, <1>4 DEF Seeks, TypeOK
  <2>3. pos' = [pos EXCEPT ![f] = newpos] /\ UNCHANGED <<data, size>> /\ Did("other", <<>>)
    BY <1>4 DEF Seeks
  <2>. QED  BY <2>1, <2>2, <2>3, OtherKeeps
<1>. QED  BY <1>2, <1>3, <1>4

LEMMA NextKeeps == Inv /\ [Next]_vars => Inv'
<1> SUFFICES ASSUME Inv, [Next]_vars PROVE Inv'
  OBVIOUS
<1>1. CASE UNCHANGED vars
  BY <1>1 DEF Inv, TypeOK, ListReachesEnd, vars
<1>2. ASSUME Next PROVE Inv'
  <2>1. PICK f \in Files :
          \/ \/ \E m \in {"r", "w", "rw"} : Open(f, m)
             \/ Release(f)
             \/ \E newpos \in -1 .. MaxPos : Seeks(f, newpos)
          \/ ReadsAtEnd(f) \/ \E count \in 1 .. MaxCall : Reads(f, count)
          \/ WritesNoMemory(f)
          \/ \E bs \in Buffers :
                /\ pos[f] + Len(bs) <= MaxPos + 1
                /\ Writes(f, bs) \/ (\E k \in 0 .. MaxCall : WritesFault(f, bs, k))
    BY <1>2 DEF Next
  <2>. QED  BY <2>1, OpensKeep, ReadsKeep, AllocationsKeep, WritesKeep
<1>. QED  BY <1>1, <1>2

(* The invariant that the theorems about the device rest on. *)
THEOREM Invariance == Spec => []Inv
<1>1. Init => Inv
  BY InitInv
<1>2. Inv /\ [Next]_vars => Inv'
  BY NextKeeps
<1>. QED  BY <1>1, <1>2, PTL DEF Spec

(* Whatever is allocated and copied, the state of the device keeps its     *)
(* type: every item of dev->data is NULL or an array of car_qset quanta,   *)
(* every quantum NULL or of car_quantum bytes, and a position is -1 just   *)
(* while its file is closed.                                               *)
THEOREM TypeCorrect == Spec => []TypeOK
<1>1. Inv => TypeOK
  BY DEF Inv
<1>. QED  BY <1>1, Invariance, PTL

(* However many allocations of car_write() have failed, and at whatever    *)
(* position it was asked to write: the list reaches to dev->size, so that  *)
(* car_follow() allocates nothing for a car_read() below the end, until a  *)
(* write has reached beyond what the int item can count.                   *)
THEOREM ReachesEnd == Spec => []ListReachesEnd
<1>1. Inv => ListReachesEnd
  BY DEF Inv
<1>. QED  BY <1>1, Invariance, PTL

-----------------------------------------------------------------------------
(* The flat file *)

Content == [c \in 0 .. Span - 1 |-> At(c)]

(* What the list holds, cell by cell. *)
Contents(ds) == [c \in 0 .. Span - 1 |-> Value(ds, c)]

LEMMA ContentIs == Content = Contents(data) /\ Content' = Contents(data')
BY DEF Content, Contents, At, Value, Unwritten

(* Every position has what its cell has. *)
LEMMA CellHolds ==
    ASSUME NEW p \in Nat
    PROVE  /\ Content[Flat!Cell(p)] = At(p)
           /\ \A ds : Value(ds, p) = Value(ds, Flat!Cell(p))
<1>1. PICK c : c = Flat!Cell(p)
  OBVIOUS
<1>2. /\ c \in Nat /\ c < Span /\ Item(p) = Item(c) /\ SPos(p) = SPos(c)
      /\ QPos(p) = QPos(c)
  BY <1>1, Wraps
<1>3. c \in 0 .. Span - 1
  BY <1>2, ItemSizeIs
<1>4. At(p) = At(c) /\ \A ds : Value(ds, p) = Value(ds, c)
  BY <1>2 DEF At, Value, QuantumAt
<1>. QED  BY <1>1, <1>3, <1>4 DEF Content

LEMMA SameContents ==
    ASSUME NEW ds, NEW es, \A q \in Nat : QuantumAt(es, q) = QuantumAt(ds, q)
    PROVE  Contents(es) = Contents(ds)
<1>1. Span \in Nat
  BY ItemSizeIs
<1>2. \A q \in 0 .. Span - 1 : Value(es, q) = Value(ds, q)
  BY <1>1 DEF Value
<1>. QED  BY <1>2 DEF Contents

LEMMA EmptyContents == Contents(<<>>) = Flat!Empty
<1>1. ASSUME NEW q \in 0 .. Span - 1 PROVE Value(<<>>, q) = Unwritten
  <2>1. q \in Nat /\ Len(<<>>) = 0
    BY ItemSizeIs
  <2>2. PICK k \in Nat : k = Item(q)
    BY <2>1, Spot
  <2>3. Item(q) >= Len(<<>>)
    BY <2>1, <2>2
  <2>. QED  BY <2>3 DEF Value, QuantumAt, Unwritten
<1>. QED  BY <1>1 DEF Contents, Flat!Empty, Flat!Cells

(* A copy is a Put(). *)
LEMMA CopyPuts ==
    ASSUME TypeOK, NEW p \in Nat, NEW bs \in Seq(Values), Len(bs) <= Quantum - QPos(p),
           NEW ds, ds = Copied(p, bs)
    PROVE  Contents(ds) = Flat!Put(p, bs)
<1>1. Span \in Nat /\ IsStore(data)
  BY ItemSizeIs, Data
<1>2. \A q \in 0 .. Span - 1 :
          Value(ds, q) = IF Flat!Cell(q - p) + 1 \in DOMAIN bs
                         THEN bs[Flat!Cell(q - p) + 1] ELSE Value(data, q)
  BY <1>1, CopiesInPlace
<1>3. \A q \in 0 .. Span - 1 : q \in Nat /\ At(q) = Value(data, q)
  BY <1>1 DEF At, Value, Unwritten
<1>. QED  BY <1>2, <1>3 DEF Contents, Flat!Put, Flat!Cells

LEMMA InitMaps == Init => Flat!Init
<1> SUFFICES ASSUME Init PROVE Flat!Init
  OBVIOUS
<1>1. Content = Flat!Empty
  BY ContentIs, EmptyContents DEF Init
<1>. QED  BY <1>1 DEF Init, Content, Flat!Init, Flat!Nothing

LEMMA OpensMap ==
    ASSUME Inv, NEW f \in Files,
           \/ \E m \in {"r", "w", "rw"} : Open(f, m)
           \/ Release(f)
           \/ \E newpos \in -1 .. MaxPos : Seeks(f, newpos)
    PROVE  Flat!Next
<1>1. TypeOK /\ MaxPos \in Nat /\ (pos[f] = -1 <=> mode[f] = "closed")
      /\ pos \in [Files -> -1 .. MaxPos + 1]
  BY StoreAssumption DEF Inv, TypeOK
<1>2. last' = Flat!Nothing
  BY DEF Open, Release, Seeks, Did, Flat!Nothing
<1>3. data' = data => Content' = Content
  BY ContentIs
<1>4. ASSUME NEW m \in {"r", "w", "rw"}, Open(f, m) PROVE Flat!Next
  <2>1. pos[f] = -1 /\ pos' = [pos EXCEPT ![f] = 0]
    BY <1>1, <1>4 DEF Open
  <2>2. CASE m = "w"
    <3>1. Content' = Flat!Empty /\ size' = 0
      BY <1>4, <2>2, ContentIs, EmptyContents DEF Open, Trim
    <3>2. Flat!OpenForWriting(f)
      BY <1>2, <2>1, <3>1 DEF Flat!OpenForWriting, Flat!MovesTo, Content
    <3>. QED  BY <3>2 DEF Flat!Next
  <2>3. CASE m # "w"
    <3>1. Content' = Content /\ size' = size
      BY <1>3, <1>4, <2>3 DEF Open
    <3>2. Flat!Open(f)
      BY <1>2, <2>1, <3>1 DEF Flat!Open, Flat!MovesTo, Content
    <3>. QED  BY <3>2 DEF Flat!Next
  <2>. QED  BY <2>2, <2>3
<1>5. CASE Release(f)
  <2>1. pos[f] # -1 /\ pos' = [pos EXCEPT ![f] = -1] /\ size' = size /\ Content' = Content
    BY <1>1, <1>3, <1>5 DEF Release
  <2>2. Flat!Close(f)
    BY <1>2, <2>1 DEF Flat!Close, Flat!MovesTo, Content
  <2>. QED  BY <2>2 DEF Flat!Next
<1>6. ASSUME NEW newpos \in -1 .. MaxPos, Seeks(f, newpos) PROVE Flat!Next
  <2>1. /\ pos[f] # -1 /\ pos' = [pos EXCEPT ![f] = newpos] /\ size' = size
        /\ Content' = Content /\ newpos >= 0
    BY <1>1, <1>3, <1>6 DEF Seeks
  <2>2. pos'[f] = newpos
    BY <1>1, <2>1
  <2>3. Flat!Seek(f)
    BY <1>2, <2>1, <2>2 DEF Flat!Seek, Flat!MovesTo, Content
  <2>. QED  BY <2>3 DEF Flat!Next
<1>. QED  BY <1>4, <1>5, <1>6

LEMMA AllocationsMap ==
    ASSUME Inv, NEW f \in Files, WritesNoMemory(f)
    PROVE  Flat!Next
<1>1. /\ TypeOK /\ ListReachesEnd /\ mode[f] # "closed" /\ UNCHANGED <<size, pos>>
      /\ data' \in Stopped(Item(pos[f])) \cup {Extended(Item(pos[f])), WithArray(pos[f])}
  BY DEF Inv, WritesNoMemory
<1>2. pos[f] \in Nat /\ pos[f] # -1
  BY <1>1, Opened DEF TypeOK
<1>3. Content' = Content
  <2>1. PICK ds : ds = data'
    OBVIOUS
  <2>2. \A q \in Nat : QuantumAt(ds, q) = QuantumAt(data, q)
    BY <1>1, <1>2, <2>1, Followed
  <2>. QED  BY <2>1, <2>2, SameContents, ContentIs
<1>4. last' = Flat!Nothing
  BY DEF WritesNoMemory, Did, Flat!Nothing
<1>5. Flat!WriteFails(f)
  BY <1>1, <1>2, <1>3, <1>4 DEF Flat!WriteFails, Content
<1>. QED  BY <1>5 DEF Flat!Next

LEMMA WritesMap ==
    ASSUME Inv, NEW f \in Files, NEW bs \in Buffers,
           Writes(f, bs) \/ (\E k \in 0 .. MaxCall : WritesFault(f, bs, k))
    PROVE  Flat!Next
<1>1. TypeOK /\ mode[f] \in {"w", "rw"} /\ MaxCall \in Nat
  BY StoreAssumption DEF Inv, Writes, WritesFault
<1>2. PICK p \in Nat : p = pos[f] /\ p # -1
  BY <1>1, Opened DEF TypeOK
<1>3. PICK n, bytes : n = Room(pos[f], bs) /\ bytes = SubSeq(bs, 1, n)
  OBVIOUS
<1>4. /\ n \in Nat /\ n <= Quantum - QPos(p)
      /\ bytes \in Seq(Values) /\ Len(bytes) = n
      /\ \A i \in 1 .. n : bytes[i] = bs[i] /\ bs[i] \in Values
  <2>1. Takes(f, bs, n, bytes)
    BY <1>3 DEF Takes
  <2>. QED  BY <1>1, <1>2, <2>1, Taken
<1>5. ASSUME NEW cs \in Seq(Values), Len(cs) = n, data' = Copied(p, cs)
      PROVE  Content' = Flat!Put(pos[f], cs)
  <2>1. PICK ds : ds = data'
    OBVIOUS
  <2>2. Contents(ds) = Flat!Put(p, cs)
    BY <1>1, <1>4, <1>5, <2>1, CopyPuts
  <2>. QED  BY <1>2, <2>1, <2>2, ContentIs
<1>6. CASE Writes(f, bs)
  <2>1. /\ data' = Copied(p, bytes) /\ last' = [call |-> "write", bytes |-> bytes]
        /\ pos' = [pos EXCEPT ![f] = @ + Len(bytes)]
        /\ size' = IF size < pos'[f] THEN pos'[f] ELSE size
    BY <1>2, <1>3, <1>6 DEF Writes, Did
  <2>2. last'.call = "write" /\ last'.bytes = bytes
    BY <2>1
  <2>3. Content' = Flat!Put(pos[f], last'.bytes)
    BY <1>4, <1>5, <2>1, <2>2
  <2>4. Flat!Write(f)
    BY <1>2, <2>1, <2>2, <2>3 DEF Flat!Write, Flat!MovesTo, Content
  <2>. QED  BY <2>4 DEF Flat!Next
<1>7. ASSUME NEW k \in 0 .. MaxCall, WritesFault(f, bs, k) PROVE Flat!Next
  <2>1. PICK cs : cs = [i \in 1 .. n |-> IF i <= k THEN bs[i] ELSE Zero]
    OBVIOUS
  <2>2. cs \in [1 .. n -> Values]
    BY <1>4, <2>1, StoreAssumption
  <2>3. cs \in Seq(Values) /\ Len(cs) = n
    BY <1>4, <2>2
  <2>4. /\ data' = Copied(p, cs) /\ last' = [call |-> "write fails", bytes |-> bytes]
        /\ UNCHANGED <<size, pos>> /\ k < n
    BY <1>2, <1>3, <1>7, <2>1 DEF WritesFault, Did
  <2>5. last'.call = "write fails" /\ last'.bytes = bytes /\ DOMAIN bytes = 1 .. n
    <3>1. DOMAIN bytes = 1 .. n
      BY <1>4
    <3>. QED  BY <2>4, <3>1
  <2>6. cs = [i \in DOMAIN last'.bytes |-> IF i <= k THEN last'.bytes[i] ELSE Zero]
    <3>1. \A i \in 1 .. n : bytes[i] = bs[i]
      BY <1>4
    <3>. QED  BY <2>1, <2>5, <3>1
  <2>7. k \in 0 .. Len(last'.bytes)
    <3>1. k \in Nat /\ Len(bytes) = n /\ n \in Nat /\ k < n
      <4>1. k \in Nat
        BY <1>1
      <4>. QED  BY <1>4, <2>4, <4>1
    <3>2. k \in 0 .. n
      BY <3>1
    <3>. QED  BY <2>5, <3>1, <3>2
  <2>8. Content' = Flat!Put(pos[f], cs)
    BY <1>5, <2>3, <2>4
  <2>9. Flat!WriteFails(f)
    BY <1>2, <2>4, <2>5, <2>6, <2>7, <2>8 DEF Flat!WriteFails, Content
  <2>. QED  BY <2>9 DEF Flat!Next
<1>. QED  BY <1>6, <1>7

LEMMA ReadsMap ==
    ASSUME Inv, NEW f \in Files, ReadsAtEnd(f) \/ \E count \in 1 .. MaxCall : Reads(f, count)
    PROVE  Flat!Next
<1>1. /\ TypeOK /\ ListReachesEnd /\ mode[f] # "closed" /\ pos \in [Files -> -1 .. MaxPos + 1]
      /\ MaxPos \in Nat /\ size \in 0 .. MaxPos + 1
  BY StoreAssumption DEF Inv, TypeOK, ReadsAtEnd, Reads
<1>2. PICK p \in Nat : p = pos[f] /\ p # -1 /\ p + 0 = p
  <2>1. pos[f] \in Nat
    BY <1>1, Opened
  <2>. QED  BY <2>1
<1>3. ASSUME Content' = Content, size' = size, ReadReturns(f, <<>>),
             p >= size \/ Content[Flat!Cell(p)] = Unwritten
      PROVE  Flat!Next
  <2>1. last'.call = "read" /\ last'.bytes = <<>> /\ pos' = [pos EXCEPT ![f] = @ + Len(last'.bytes)]
    BY <1>3 DEF ReadReturns, Did
  <2>2. Flat!Read(f)
    BY <1>2, <1>3, <2>1 DEF Flat!Read, Flat!MovesTo, Content
  <2>. QED  BY <2>2 DEF Flat!Next
<1>4. CASE ReadsAtEnd(f)
  <2>1. Content' = Content /\ size' = size /\ ReadReturns(f, <<>>) /\ p >= size
    BY <1>2, <1>4, ContentIs DEF ReadsAtEnd
  <2>. QED  BY <1>3, <2>1
<1>5. ASSUME NEW count \in 1 .. MaxCall, Reads(f, count) PROVE Flat!Next
  <2>1. PICK n : n = Least(Least(count, size - pos[f]), Quantum - QPos(pos[f]))
    OBVIOUS
  <2>2. PICK v : v = QuantumAt(data', pos[f])
    OBVIOUS
  <2>3. PICK bs : bs = SubSeq(v, QPos(pos[f]) + 1, QPos(pos[f]) + n)
    OBVIOUS
  <2>4. /\ pos[f] < size /\ UNCHANGED <<size, mode>>
        /\ data' \in Stopped(Item(pos[f])) \cup {Extended(Item(pos[f])), WithArray(pos[f])}
        /\ \/ v = NoQuantum /\ ReadReturns(f, <<>>)
           \/ v # NoQuantum /\ ReadReturns(f, bs)
           \/ Did("read fails", <<>>) /\ UNCHANGED pos
    BY <1>5, <2>1, <2>2, <2>3 DEF Reads
  <2>5. n \in Nat \ {0} /\ n <= Quantum - QPos(p) /\ p + n <= size /\ p + n <= MaxPos + 1
    BY <1>1, <1>2, <2>1, <2>4, CountsAre
  <2>6. \A q \in Nat : QuantumAt(data', q) = QuantumAt(data, q)
    <3>1. PICK ds : ds = data'
      OBVIOUS
    <3>2. \A q \in Nat : QuantumAt(ds, q) = QuantumAt(data, q)
      BY <1>1, <1>2, <2>4, <3>1, Followed
    <3>. QED  BY <3>1, <3>2
  <2>7. Content' = Content
    <3>1. PICK ds : ds = data'
      OBVIOUS
    <3>. QED  BY <2>6, <3>1, SameContents, ContentIs
  <2>8. v = QuantumAt(data, p)
    BY <1>2, <2>2, <2>6
  <2>9. CASE v = NoQuantum /\ ReadReturns(f, <<>>)
    <3>1. At(p) = Unwritten
      BY <2>8, <2>9 DEF At
    <3>2. Content[Flat!Cell(p)] = Unwritten
      BY <3>1, CellHolds
    <3>. QED  BY <1>3, <2>4, <2>7, <2>9, <3>2
  <2>10. CASE Did("read fails", <<>>) /\ UNCHANGED pos
    <3>1. last' = [call |-> "read fails", bytes |-> <<>>]
      BY <2>10 DEF Did
    <3>2. Flat!ReadFails(f)
      BY <1>2, <2>4, <2>7, <2>10, <3>1 DEF Flat!ReadFails, Content
    <3>. QED  BY <3>2 DEF Flat!Next
  <2>11. CASE v # NoQuantum /\ ReadReturns(f, bs)
    <3>1. PICK c \in Nat : c = QPos(p)
      BY Spot
    <3>2. v \in [1 .. Quantum -> Bytes]
      BY <1>1, <2>8, <2>11, Data, QuantumTyped
    <3>3. /\ bs \in Seq(Bytes) /\ Len(bs) = n /\ \A i \in 1 .. n : bs[i] = v[c + i]
      <4>1. n <= Quantum - c /\ n \in Nat /\ bs = SubSeq(v, c + 1, c + n)
        BY <1>2, <2>3, <2>5, <3>1
      <4>2. /\ SubSeq(v, c + 1, c + n) \in Seq(Bytes) /\ Len(SubSeq(v, c + 1, c + n)) = n
            /\ \A i \in 1 .. n : SubSeq(v, c + 1, c + n)[i] = v[c + i]
        BY <3>2, <4>1, Slice
      <4>. QED  BY <4>1, <4>2
    <3>4. ASSUME NEW i \in 1 .. n PROVE Content[Flat!Cell(p + i - 1)] = bs[i]
      <4>1. PICK j \in Int : j = i - 1 /\ p + j = p + i - 1 /\ c + j + 1 = c + i
        BY <2>5
      <4>2. c + j \in 0 .. Quantum - 1
        BY <2>5, <3>1, <4>1, ItemSizeIs
      <4>3. /\ p + j \in Nat /\ Item(p + j) = Item(p) /\ SPos(p + j) = SPos(p)
            /\ QPos(p + j) = c + j
        BY <3>1, <4>1, <4>2, Behind DEF Item, Row
      <4>4. QuantumAt(data, p + j) = v
        BY <2>8, <4>3 DEF QuantumAt
      <4>5. At(p + j) = v[c + i]
        BY <2>11, <4>1, <4>3, <4>4 DEF At
      <4>6. Content[Flat!Cell(p + j)] = At(p + j)
        BY <4>3, CellHolds
      <4>. QED  BY <3>3, <4>1, <4>5, <4>6
    <3>5. /\ last'.call = "read" /\ last'.bytes = bs
          /\ pos' = [pos EXCEPT ![f] = @ + Len(last'.bytes)]
      BY <2>11 DEF ReadReturns, Did
    <3>6. bs # <<>> /\ DOMAIN bs = 1 .. n
      <4>1. Len(<<>>) = 0
        OBVIOUS
      <4>. QED  BY <2>5, <3>3, <4>1
    <3>7. pos[f] + Len(last'.bytes) <= size
      BY <1>2, <2>5, <3>3, <3>5
    <3>8. \A i \in DOMAIN last'.bytes : Content[Flat!Cell(pos[f] + i - 1)] \in {Unwritten, last'.bytes[i]}
      BY <1>2, <3>4, <3>5, <3>6
    <3>9. Flat!Read(f)
      BY <1>2, <2>4, <2>7, <3>5, <3>6, <3>7, <3>8 DEF Flat!Read, Flat!MovesTo, Content
    <3>. QED  BY <3>9 DEF Flat!Next
  <2>. QED  BY <2>4, <2>9, <2>10, <2>11
<1>. QED  BY <1>4, <1>5

LEMMA NextMaps == Inv /\ [Next]_vars => [Flat!Next]_(Flat!vars)
<1> SUFFICES ASSUME Inv, [Next]_vars PROVE [Flat!Next]_(Flat!vars)
  OBVIOUS
<1>1. CASE UNCHANGED vars
  <2>1. data' = data /\ size' = size /\ pos' = pos /\ last' = last
    BY <1>1 DEF vars
  <2>2. Content' = Content
    BY <2>1, ContentIs
  <2>. QED  BY <2>1, <2>2 DEF Flat!vars, Content
<1>2. ASSUME Next PROVE Flat!Next
  <2>1. PICK f \in Files :
          \/ \/ \E m \in {"r", "w", "rw"} : Open(f, m)
             \/ Release(f)
             \/ \E newpos \in -1 .. MaxPos : Seeks(f, newpos)
          \/ ReadsAtEnd(f) \/ \E count \in 1 .. MaxCall : Reads(f, count)
          \/ WritesNoMemory(f)
          \/ \E bs \in Buffers : Writes(f, bs) \/ (\E k \in 0 .. MaxCall : WritesFault(f, bs, k))
    BY <1>2 DEF Next
  <2>. QED  BY <2>1, OpensMap, ReadsMap, AllocationsMap, WritesMap
<1>. QED  BY <1>1, <1>2

(* The list of quantum sets is a flat file of Span cells: whatever         *)
(* allocations and copies fail on the way, no byte that car_write() has    *)
(* taken is lost, moved, or read by car_read() as another, but the one     *)
(* that a seek to another position of the same cell has led to.            *)
THEOREM Refines == Spec => StoresBytes
<1>1. Init => Flat!Init
  BY InitMaps
<1>2. Inv /\ [Next]_vars => [Flat!Next]_(Flat!vars)
  BY NextMaps
<1>. QED  BY <1>1, <1>2, Invariance, PTL DEF Spec, StoresBytes, Flat!Spec

-----------------------------------------------------------------------------
(* No holes *)

(* What a copy at p leaves in the positions of a file. *)
LEMMA CopyFills ==
    ASSUME TypeOK, NEW p \in Nat, NEW bs \in Seq(Values), Len(bs) <= Quantum - QPos(p),
           NEW ds, ds = Copied(p, bs), NEW q \in Nat
    PROVE  /\ Value(ds, q) # Junk \/ Value(ds, q) = Value(data, q)
           /\ q >= p /\ q < p + Len(bs) => Value(ds, q) # Junk
<1>1. PICK c \in 0 .. Span - 1 : c = Flat!Cell(q)
  <2>1. p \in Int /\ q \in Int
    OBVIOUS
  <2>2. Flat!Cell(q) \in 0 .. Span - 1
    BY <2>1, Shifts
  <2>. QED  BY <2>2
<1>2. Value(ds, q) = Value(ds, c) /\ Value(data, q) = Value(data, c)
  BY <1>1, CellHolds
<1>3. PICK x \in Nat, n \in Nat : x = Flat!Cell(q - p) /\ n = Len(bs) /\ DOMAIN bs = 1 .. n
  <2>1. p \in Int /\ q \in Int
    OBVIOUS
  <2>2. Flat!Cell(q - p) \in 0 .. Span - 1
    BY <2>1, Shifts
  <2>3. Flat!Cell(q - p) \in Nat
    BY <2>2, ItemSizeIs
  <2>4. Len(bs) \in Nat /\ DOMAIN bs = 1 .. Len(bs)
    OBVIOUS
  <2>. QED  BY <2>3, <2>4
<1>4. Flat!Cell(c - p) = x
  <2>1. p \in Int /\ q \in Int
    OBVIOUS
  <2>2. Flat!Cell(Flat!Cell(q) - p) = Flat!Cell(q - p)
    BY <2>1, Shifts
  <2>. QED  BY <1>1, <1>3, <2>2
<1>5. Value(ds, c) = IF x + 1 \in 1 .. n THEN bs[x + 1] ELSE Value(data, c)
  <2>1. IsStore(data)
    BY Data
  <2>. QED  BY <1>3, <1>4, <2>1, CopiesInPlace
<1>6. x + 1 \in 1 .. n => bs[x + 1] # Junk
  <2>1. \A j \in 1 .. n : bs[j] \in Values
    BY <1>3
  <2>2. \A j \in 1 .. n : bs[j] \in Nat
    BY <2>1, StoreAssumption
  <2>. QED  BY <2>2 DEF Junk
<1>7. ASSUME q >= p, q < p + n PROVE x + 1 \in 1 .. n
  <2>1. PICK d \in Nat : d = q - p /\ d < n
    BY <1>7
  <2>2. QPos(p) \in Nat
    BY Spot
  <2>3. d \in 0 .. Span - 1
    BY <1>3, <2>1, <2>2, ItemSizeIs
  <2>4. x = d
    BY <1>3, <2>1, <2>3, SmallCell
  <2>. QED  BY <2>1, <2>4
<1>. QED  BY <1>2, <1>3, <1>5, <1>6, <1>7

LEMMA AtIs == (\A q : At(q) = Value(data, q)) /\ (\A q : At(q)' = Value(data', q))
BY DEF At, Value, Unwritten

(* Steps that write nothing. *)
LEMMA SameStaysDense ==
    ASSUME TypeOK, Dense, size' = size,
           \A q \in Nat : QuantumAt(data', q) = QuantumAt(data, q)
    PROVE  Dense'
<1>1. \A q \in 0 .. size - 1 : q \in Nat
  OBVIOUS
<1>2. ASSUME NEW q \in 0 .. size - 1 PROVE At(q)' # Unwritten
  <2>1. At(q) # Unwritten
    BY DEF Dense
  <2>2. Value(data', q) = Value(data, q)
    BY <1>1 DEF Value
  <2>. QED  BY <2>1, <2>2, AtIs
<1>. QED  BY <1>2 DEF Dense, Unwritten

LEMMA WritesFill ==
    ASSUME Inv, Dense, NEW f \in Files, NEW bs \in Buffers,
           Writes(f, bs) \/ (\E k \in 0 .. MaxCall : WritesFault(f, bs, k))
    PROVE  Dense' \/ (pos[f] > size /\ size' > size)
<1>1. TypeOK /\ mode[f] \in {"w", "rw"}
  BY DEF Inv, Writes, WritesFault
<1>2. PICK p \in Nat, s \in Nat : p = pos[f] /\ s = size
  <2>1. mode[f] # "closed"
    BY <1>1
  <2>2. pos[f] \in Nat
    BY <1>1, <2>1, Opened
  <2>3. size \in 0 .. MaxPos + 1
    BY <1>1 DEF TypeOK
  <2>4. size \in Nat
    BY <2>3, StoreAssumption
  <2>. QED  BY <2>2, <2>4
<1>3. PICK n, bytes : n = Room(pos[f], bs) /\ bytes = SubSeq(bs, 1, n)
  OBVIOUS
<1>4. /\ n \in Nat /\ n <= Quantum - QPos(p) /\ bytes \in Seq(Values) /\ Len(bytes) = n
      /\ \A i \in 1 .. n : bytes[i] = bs[i] /\ bs[i] \in Values
  <2>1. Takes(f, bs, n, bytes)
    BY <1>3 DEF Takes
  <2>. QED  BY <1>1, <1>2, <2>1, Taken
<1>5. ASSUME NEW cs \in Seq(Values), Len(cs) = n, data' = Copied(p, cs),
             NEW q \in Nat, q < s \/ (q >= p /\ q < p + n)
      PROVE  At(q)' # Unwritten
  <2>1. PICK ds : ds = data'
    OBVIOUS
  <2>2. /\ Value(ds, q) # Junk \/ Value(ds, q) = Value(data, q)
        /\ q >= p /\ q < p + Len(cs) => Value(ds, q) # Junk
    BY <1>1, <1>4, <1>5, <2>1, CopyFills
  <2>3. q < s => Value(data, q) # Junk
    <3>1. q < s => q \in 0 .. size - 1
      BY <1>2
    <3>. QED  BY <3>1, AtIs DEF Dense, Unwritten
  <2>. QED  BY <1>5, <2>1, <2>2, <2>3, AtIs DEF Unwritten
<1>6. CASE Writes(f, bs)
  <2>1. /\ data' = Copied(p, bytes) /\ pos' = [pos EXCEPT ![f] = p + n]
        /\ size' = IF size < pos'[f] THEN pos'[f] ELSE size
    BY <1>2, <1>3, <1>4, <1>6 DEF Writes
  <2>2. size' = IF s < p + n THEN p + n ELSE s
    BY <1>1, <1>2, <2>1 DEF TypeOK
  <2>3. CASE p > s /\ s < p + n
    BY <1>2, <1>4, <2>2, <2>3
  <2>4. CASE ~(p > s /\ s < p + n)
    <3>1. ASSUME NEW q \in 0 .. size' - 1 PROVE At(q)' # Unwritten
      <4>1. q \in Nat /\ (q < s \/ (q >= p /\ q < p + n))
        BY <1>2, <1>4, <2>2, <2>4
      <4>. QED  BY <1>4, <1>5, <2>1, <4>1
    <3>. QED  BY <3>1 DEF Dense, Unwritten
  <2>. QED  BY <2>3, <2>4
<1>7. ASSUME NEW k \in 0 .. MaxCall, WritesFault(f, bs, k) PROVE Dense'
  <2>1. PICK cs : cs = [i \in 1 .. n |-> IF i <= k THEN bs[i] ELSE Zero]
    OBVIOUS
  <2>2. cs \in [1 .. n -> Values]
    BY <1>4, <2>1, StoreAssumption
  <2>3. cs \in Seq(Values) /\ Len(cs) = n
    BY <1>4, <2>2
  <2>4. data' = Copied(p, cs) /\ size' = s
    BY <1>2, <1>3, <1>7, <2>1 DEF WritesFault
  <2>5. ASSUME NEW q \in 0 .. size' - 1 PROVE At(q)' # Unwritten
    <3>1. q \in Nat /\ q < s
      BY <1>2, <2>4
    <3>. QED  BY <1>5, <2>3, <2>4, <3>1
  <2>. QED  BY <2>5 DEF Dense, Unwritten
<1>. QED  BY <1>2, <1>6, <1>7

LEMMA NextFills ==
    ASSUME Inv, [Next]_vars, Dense
    PROVE  Dense' \/ \E f \in Files : pos[f] > size /\ size' > size
<1>1. TypeOK /\ ListReachesEnd
  BY DEF Inv
<1>2. ASSUME data' = data, size' = size PROVE Dense'
  BY <1>1, <1>2, SameStaysDense DEF QuantumAt
<1>3. ASSUME Trim PROVE Dense'
  <2>1. 0 .. size' - 1 = {}
    BY <1>3 DEF Trim
  <2>. QED  BY <2>1 DEF Dense
<1>4. ASSUME NEW f \in Files, mode[f] # "closed", size' = size,
             data' \in Stopped(Item(pos[f])) \cup {Extended(Item(pos[f])), WithArray(pos[f])}
      PROVE  Dense'
  <2>1. PICK p \in Nat : p = pos[f]
    BY <1>1, <1>4, Opened
  <2>2. PICK ds : ds = data'
    OBVIOUS
  <2>3. \A q \in Nat : QuantumAt(ds, q) = QuantumAt(data, q)
    BY <1>1, <1>4, <2>1, <2>2, Followed
  <2>. QED  BY <1>1, <1>4, <2>2, <2>3, SameStaysDense
<1>5. CASE UNCHANGED vars
  BY <1>2, <1>5 DEF vars
<1>6. ASSUME Next PROVE Dense' \/ \E f \in Files : pos[f] > size /\ size' > size
  <2>1. PICK f \in Files :
          \/ \/ \E m \in {"r", "w", "rw"} : Open(f, m)
             \/ Release(f)
             \/ \E newpos \in -1 .. MaxPos : Seeks(f, newpos)
          \/ ReadsAtEnd(f) \/ \E count \in 1 .. MaxCall : Reads(f, count)
          \/ WritesNoMemory(f)
          \/ \E bs \in Buffers : Writes(f, bs) \/ (\E k \in 0 .. MaxCall : WritesFault(f, bs, k))
    BY <1>6 DEF Next
  <2>2. ASSUME NEW m \in {"r", "w", "rw"}, Open(f, m) PROVE Dense'
    <3>1. Trim \/ (data' = data /\ size' = size)
      BY <2>2 DEF Open
    <3>. QED  BY <1>2, <1>3, <3>1
  <2>3. ASSUME NEW newpos \in -1 .. MaxPos, Seeks(f, newpos) PROVE Dense'
    <3>1. data' = data /\ size' = size
      BY <2>3 DEF Seeks
    <3>. QED  BY <1>2, <3>1
  <2>4. CASE Release(f) \/ ReadsAtEnd(f)
    BY <1>2, <2>4 DEF Release, ReadsAtEnd
  <2>5. ASSUME NEW count \in 1 .. MaxCall, Reads(f, count) PROVE Dense'
    BY <1>4, <2>5 DEF Reads
  <2>6. CASE WritesNoMemory(f)
    BY <1>4, <2>6 DEF WritesNoMemory
  <2>7. ASSUME NEW bs \in Buffers,
               Writes(f, bs) \/ (\E k \in 0 .. MaxCall : WritesFault(f, bs, k))
        PROVE  Dense' \/ (pos[f] > size /\ size' > size)
    BY <2>7, WritesFill
  <2>. QED  BY <2>1, <2>2, <2>3, <2>4, <2>5, <2>6, <2>7
<1>. QED  BY <1>5, <1>6

(* The old memory of a fresh quantum stays beyond the end of the data,     *)
(* and whatever fails, no byte below the end is missing, unless car_write()*)
(* begins beyond the end, where an llseek() has led it.                    *)
THEOREM LeavesNoHole == Spec => HolesOnlyBehindSeeks
<1>1. ASSUME Inv, [Next]_vars
      PROVE  [ Dense => Dense' \/ \E f \in Files : pos[f] > size /\ size' > size ]_vars
  BY <1>1, NextFills
<1>. QED  BY <1>1, Invariance, PTL DEF Spec, HolesOnlyBehindSeeks

=============================================================================
