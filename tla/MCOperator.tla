----------------------------- MODULE MCOperator -----------------------------
EXTENDS Operator

Manual == [scaling |-> "manual", extra |-> TRUE]
Direct == [scaling |-> "direct", extra |-> FALSE]
Managed == [scaling |-> "managed", extra |-> FALSE]

Scalings == {Manual, Direct, Managed}
Switches ==
    {<<Manual, Direct>>, <<Direct, Managed>>, <<Managed, Direct>>, <<Managed, Manual>>,
     <<Managed, Managed>>}
=============================================================================
