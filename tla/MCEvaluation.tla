---------------------------- MODULE MCEvaluation ----------------------------
(***************************************************************************)
(* A small instance of Evaluation: datasets of up to three lines, with and *)
(* without a route label, with two, one, no or null expected fields, and   *)
(* lines that are skipped or end the program.                              *)
(***************************************************************************)
EXTENDS Evaluation

CONSTANTS ACME, Acme, Bolt

MCFolded == [s \in {ACME, Acme, Bolt} |-> IF s = ACME THEN Acme ELSE s]

Both == [vendor_name |-> ACME, total_amount |-> 4004]

Label(fields, route) ==
    [expected_type |-> "invoice", expected_fields |-> fields,
     expected_route |-> route]

MCLines ==
    { Label(Both, "auto_approve"),
      Label(Both, None),
      Label([due_date |-> None], "reject"),
      Label([f \in {} |-> None], None),
      Label(None, "auto_approve"),
      Blank, Malformed, NotAnObject }

Outcome(type, route, vendor, total) ==
    [ document_type |-> type, route |-> route,
      fields |-> [EmptyFields EXCEPT !.vendor_name = vendor,
                                     !.total_amount = total] ]

MCOutcomes ==
    { Outcome("invoice", "auto_approve", Acme, 4000),
      Outcome("invoice", "reject", Acme, None),
      Outcome("unknown", "auto_approve", Bolt, 4010) }

=============================================================================
