--------------------------- MODULE MCModuleLoader ---------------------------
(* Instances of ModuleLoader for TLC: a source, two instances of one detector  *)
(* module that two sections ask for, and a unique module.                      *)
EXTENDS ModuleLoader

MCSection    == <<1, 2, 2, 3>>
MCUniqueName == <<"source", "digitizer:d1", "writer", "digitizer:d1">>
MCDetector   == <<NoDetector, "d1", NoDetector, "d1">>
MCInput      == <<"", "", "a", "">>

D(kind, type, required, overwrite, name) ==
    [kind |-> kind, type |-> type, required |-> required,
     overwrite |-> overwrite, name |-> name]

MCDigitizer == {
    <<D("single", "A", TRUE, FALSE, "input")>>,
    <<D("single", "A", FALSE, TRUE, "ignore"), D("multi", "B", FALSE, FALSE, "input")>>}

MCWriter == {
    <<D("filter", "BaseMessage", TRUE, FALSE, "ignore")>>,
    <<D("multi", "A", TRUE, FALSE, "input"), D("single", "B", TRUE, FALSE, "unnamed")>>,
    <<D("multi", "A", TRUE, FALSE, "ignore"), D("multi", "BaseMessage", FALSE, FALSE, "unnamed")>>}

MCPlainDigitizer == {<<D("single", "A", TRUE, FALSE, "input")>>}

MCBindings == <<{<<>>}, MCDigitizer, MCWriter, MCPlainDigitizer>>
=============================================================================
