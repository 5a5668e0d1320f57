---------------------------- MODULE MCMemDepUnit ----------------------------
(* Model-checking instance of MemDepUnit: thread ids are model values.     *)
EXTENDS MemDepUnit

CONSTANTS T0, T1

\* One unit per hardware thread, as the O3 IQ instantiates it.
OneThread  == {T0}
\* One unit shared by two SMT threads, as spec section 5 describes.
TwoThreads == {T0, T1}
====
