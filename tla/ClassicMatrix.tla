---------------------------- MODULE ClassicMatrix ---------------------------
(* Matrices over GF(2^8) (matrix.rs) and the encoding matrices of the Classic *)
(* family (core/codec.rs).  A matrix is a function of the row to a function   *)
(* of the column.                                                             *)
EXTENDS ClassicField, FiniteSets

Rows(m) == Cardinality(DOMAIN m)
Cols(m) == Cardinality(DOMAIN m[0])
Matrices(r, c) == [0 .. r - 1 -> [0 .. c - 1 -> Byte]]

(* What an operation returns instead of a matrix: SingularMatrix of an        *)
(* inversion, InvalidCustomMatrix of a construction.                          *)
Singular == <<>>
InvalidCustomMatrix == <<>>

identity(n) == [r \in 0 .. n - 1 |-> [c \in 0 .. n - 1 |-> IF r = c THEN 1 ELSE 0]]

(* The sum of the products of two vectors of n elements.                     *)
Dot(n, a, b) ==
  LET sum[i \in 0 .. n] == IF i = 0 THEN 0 ELSE add(sum[i - 1], mul(a[i - 1], b[i - 1]))
  IN sum[n]

multiply(a, b) ==
  [r \in DOMAIN a |-> [c \in 0 .. Cols(b) - 1 |->
     Dot(Rows(b), a[r], [i \in DOMAIN b |-> b[i][c]])]]

augment(a, b) ==
  [r \in DOMAIN a |-> [c \in 0 .. Cols(a) + Cols(b) - 1 |->
     IF c < Cols(a) THEN a[r][c] ELSE b[r][c - Cols(a)]]]

sub_matrix(m, rmin, cmin, rmax, cmax) ==
  [r \in 0 .. rmax - rmin - 1 |-> [c \in 0 .. cmax - cmin - 1 |-> m[rmin + r][cmin + c]]]

swap_rows(m, r1, r2) == [m EXCEPT ![r1] = m[r2], ![r2] = m[r1]]

Scaled(row, scale) == [c \in DOMAIN row |-> mul(scale, row[c])]

(* A multiple of row by is added to each of the rows, to clear its column by. *)
Cleared(m, rows, by) ==
  [r \in DOMAIN m |->
     IF r \in rows THEN [c \in DOMAIN m[r] |-> add(m[r][c], mul(m[r][by], m[by][c]))]
     ELSE m[r]]

(* A mutant: a zero on the diagonal is not looked past.                      *)
NeverPivoted(m, r) == m

(* The first row at or below r with an element other than zero in column r    *)
(* comes to r, if there is one.                                               *)
Pivoted(m, r) ==
  LET usable == {i \in DOMAIN m : i >= r /\ m[i][r] # 0}
  IN IF usable = {} THEN m
     ELSE swap_rows(m, r, CHOOSE i \in usable : \A j \in usable : i <= j)

One(m, r) == IF m[r][r] = 1 THEN m ELSE [m EXCEPT ![r] = Scaled(m[r], div(1, m[r][r]))]

(* Step r of the way down: a one on the diagonal and zeros below it.         *)
Eliminated(m, r) ==
  IF m = Singular \/ m[r][r] = 0 THEN Singular
  ELSE Cleared(One(m, r), r + 1 .. Rows(m) - 1, r)

(* Reduced row echelon form: the diagonal from top to bottom with everything  *)
(* below it, then everything above it.  down[r] and up[r] are the matrices    *)
(* after r steps.                                                            *)
gaussian_elim(mat) ==
  LET n == Rows(mat)
      PivotedTo(m, r) == IF m = Singular THEN m ELSE Pivoted(m, r)
      down[r \in 0 .. n] ==
        IF r = 0 THEN mat ELSE Eliminated(PivotedTo(down[r - 1], r - 1), r - 1)
      Upward(m) ==
        LET up[r \in 0 .. n] == IF r = 0 THEN m ELSE Cleared(up[r - 1], 0 .. r - 2, r - 1)
        IN up[n]
      Reduced(m) == IF m = Singular THEN m ELSE Upward(m)
  IN Reduced(down[n])

invert(m) ==
  LET RightHalf(work, n) == IF work = Singular THEN Singular ELSE sub_matrix(work, 0, n, n, 2 * n)
  IN RightHalf(gaussian_elim(augment(m, identity(Rows(m)))), Rows(m))

vandermonde(rows, cols) ==
  [r \in 0 .. rows - 1 |-> [c \in 0 .. cols - 1 |-> exp(nth(r), c)]]

(* ------------------------- the encoding matrices ------------------------- *)

(* Vandermonde: multiplied by the inverse of its top, so that its top is the  *)
(* identity.                                                                  *)
Systematic(v, inverse) ==
  IF inverse = Singular THEN InvalidCustomMatrix ELSE multiply(v, inverse)

build_matrix(d, total) ==
  Systematic(vandermonde(total, d), invert(sub_matrix(vandermonde(total, d), 0, 0, d, d)))

build_cauchy_matrix(d, total) ==
  IF \E r \in d .. total - 1, c \in 0 .. d - 1 : add(nth(r), nth(c)) = 0
  THEN InvalidCustomMatrix
  ELSE [r \in 0 .. total - 1 |->
         IF r < d THEN identity(d)[r] ELSE [c \in 0 .. d - 1 |-> div(1, add(nth(r), nth(c)))]]

(* The first and the last row that a Vandermonde matrix is extended with.    *)
ExtendedVandermonde(d, total) ==
  [r \in 0 .. total - 1 |->
     CASE r = total - 1 -> [c \in 0 .. d - 1 |-> IF c = d - 1 THEN 1 ELSE 0]
       [] r # total - 1 /\ r = 0 -> [c \in 0 .. d - 1 |-> IF c = 0 THEN 1 ELSE 0]
       [] OTHER -> vandermonde(total, d)[r]]

(* Row i becomes that of the identity by operations on columns.              *)
IdentityAt(m, i) ==
  LET Column(one) == [r \in DOMAIN m |-> mul(m[r][i], one)]
      Spread(scaled) ==
        [r \in DOMAIN m |-> [j \in DOMAIN m[r] |->
           IF j = i THEN scaled[r] ELSE add(m[r][j], mul(m[i][j], scaled[r]))]]
  IN Spread(Column(div(1, m[i][i])))

(* The first parity row scaled to ones, then the first column of the rows     *)
(* below it.                                                                  *)
FirstRowOnes(m, d) ==
  IF m = InvalidCustomMatrix THEN m
  ELSE IF \E c \in DOMAIN m[d] : m[d][c] = 0 THEN InvalidCustomMatrix
  ELSE [r \in DOMAIN m |-> IF r < d THEN m[r]
          ELSE [c \in DOMAIN m[r] |-> mul(m[r][c], div(1, m[d][c]))]]

FirstColumnOnes(m, d) ==
  IF m = InvalidCustomMatrix THEN m
  ELSE IF \E r \in DOMAIN m : r > d /\ m[r][0] = 0 THEN InvalidCustomMatrix
  ELSE [r \in DOMAIN m |-> IF r <= d THEN m[r] ELSE Scaled(m[r], div(1, m[r][0]))]

(* JerasureLike: the top by column operations, then the parity rows.  Where   *)
(* a column has nothing but zeros left the program would panic; it does not   *)
(* happen.                                                                    *)
build_jerasure_like_matrix(d, total) ==
  LET PivotedTo(m, i) == IF m = InvalidCustomMatrix THEN m ELSE Pivoted(m, i)
      IdentityTo(m, i) ==
        IF m = InvalidCustomMatrix \/ m[i][i] = 0 THEN InvalidCustomMatrix ELSE IdentityAt(m, i)
      top[i \in 0 .. d] ==
        IF i = 0 THEN ExtendedVandermonde(d, total)
        ELSE IdentityTo(PivotedTo(top[i - 1], i - 1), i - 1)
  IN FirstColumnOnes(FirstRowOnes(top[d], d), d)

(* The caller's parity rows under an identity.  Nothing is asked of them but  *)
(* that there are enough of them, and long enough; what is too much is left.  *)
build_custom_matrix(d, total, custom) ==
  IF \/ Rows(custom) < total - d
     \/ \E r \in 0 .. total - d - 1 : Cardinality(DOMAIN custom[r]) < d
  THEN InvalidCustomMatrix
  ELSE [r \in 0 .. total - 1 |->
         IF r < d THEN identity(d)[r] ELSE [c \in 0 .. d - 1 |-> custom[r - d][c]]]

(* build_matrix_with_options, for the Classic family.                        *)
build_matrix_with_options(d, total, mode) ==
  CASE mode = "Vandermonde"  -> build_matrix(d, total)
    [] mode = "Cauchy"       -> build_cauchy_matrix(d, total)
    [] mode = "JerasureLike" -> build_jerasure_like_matrix(d, total)
    [] mode = "Custom"       -> InvalidCustomMatrix

(* ------------------------------- reference ------------------------------- *)

(* The determinant of a square matrix by its first row; signs do not matter   *)
(* in this field.                                                             *)
Minor(m, col) ==
  [r \in 0 .. Rows(m) - 2 |-> [c \in 0 .. Rows(m) - 2 |->
     m[r + 1][IF c < col THEN c ELSE c + 1]]]

Det2(m) == add(mul(m[0][0], m[1][1]), mul(m[0][1], m[1][0]))

Det(m) ==
  CASE Rows(m) = 1 -> m[0][0]
    [] Rows(m) = 2 -> Det2(m)
    [] Rows(m) = 3 -> Dot(3, m[0], [c \in 0 .. 2 |-> Det2(Minor(m, c))])
=============================================================================
