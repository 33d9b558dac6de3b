---------------------------- MODULE BinomialDraw ----------------------------
(***************************************************************************)
(* getBinomial(n, p) of ocl_sample_maintenance.c adds                     *)
(* log(random() / (RAND_MAX - 1)) / (n - x) to a double `sum` until        *)
(* sum < log(1 - p), and returns x. Doubles are abstracted to their IEEE   *)
(* class: -inf, negative, zero, positive, +inf, NaN; a comparison of two   *)
(* negative finite values may go either way.                               *)
(***************************************************************************)
EXTENDS Integers

FloatClass == {"-inf", "neg", "zero", "pos", "+inf", "nan"}

\* random() / (double)(RAND_MAX - 1) for random() in 0..RAND_MAX: zero, a
\* fraction, exactly one (RAND_MAX - 1), or just above one (RAND_MAX).
Draw == {"zero", "frac", "one", "above"}

LogOf == [r \in Draw |->
            CASE r = "zero" -> "-inf" [] r = "frac" -> "neg"
              [] r = "one"  -> "zero" [] r = "above" -> "pos"]

Negated == [c \in FloatClass |->
              CASE c = "-inf" -> "+inf" [] c = "neg" -> "pos"
                [] c = "pos"  -> "neg"  [] c = "+inf" -> "-inf"
                [] OTHER -> c]

\* log(r) / (n - x), where n - x is an int converted to double.
Term(r, d) ==
    LET l == LogOf[r] IN
    CASE d > 0 -> l
      [] d < 0 -> Negated[l]
      [] OTHER -> CASE l = "zero" -> "nan"
                    [] l = "pos"  -> "+inf"
                    [] OTHER      -> "-inf"

\* The classes a + b can have.
AddF(a, b) ==
    CASE "nan" \in {a, b} \/ {a, b} = {"-inf", "+inf"} -> {"nan"}
      [] "-inf" \in {a, b} -> {"-inf"}
      [] "+inf" \in {a, b} -> {"+inf"}
      [] a = "zero" -> {b}
      [] b = "zero" -> {a}
      [] a = b -> {a}
      [] OTHER -> {"neg", "zero", "pos"}

\* The outcomes of sum < log_q.
Below(sum, logq) ==
    CASE logq = "neg" /\ sum = "-inf" -> {TRUE}
      [] logq = "neg" /\ sum = "neg"  -> BOOLEAN
      [] OTHER -> {FALSE}

\* log(1.0 - 1.0 / rows) for an unsigned row count: 1/0 is +inf and
\* log(-inf) is NaN; rows = 1 gives log(0) = -inf; rows > 1 a negative value.
LogQ(rows) == CASE rows = 0 -> "nan" [] rows = 1 -> "-inf" [] OTHER -> "neg"

=============================================================================
