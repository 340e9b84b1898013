----------------------------- MODULE MCMappingFit -----------------------------
(* A small scan for the solver of the bank and row families *)
EXTENDS MappingFit

Row(a, b, c) == [pa_a |-> a, pa_b |-> b, cls |-> c]

\* Eight pairs of three bits on which a separator of three terms repeats one
RepeatedTerm ==
  {<<Row(1, 4, "conflict"), Row(0, 3, "low"), Row(0, 1, "low"), Row(2, 6, "conflict"),
     Row(3, 7, "low"), Row(4, 5, "low"), Row(2, 7, "low"), Row(1, 7, "low")>>}

NoHoldout == <<0, 1>>

=============================================================================
