--------------------------- MODULE MCMeasurements ---------------------------
(* The bodies Measurements is checked with, by what each of them reads.     *)
EXTENDS Measurements, TLC

CONSTANTS
  orders, fx,    \* the dataset's table, and another dataset's
  drift,         \* a body over the dataset's view and the other dataset's table
  spread,        \* over the dataset's every relation
  told,          \* over the glossary
  byFile,        \* over a table and a file
  trend          \* over the landed measurements

\* Every way a body names its reads.
EveryInput ==
  drift :> {View, fx} @@ spread :> {Star} @@ told :> {Glossary} @@ byFile :> {orders, All}

\* Bodies over the lake, the view under the subject.
LakeInputs == drift :> {View, fx} @@ spread :> {Star}

\* One body of one kind.
DriftInputs == drift :> {View, fx}
ToldInputs  == told :> {Glossary}
TrendInputs == trend :> {Landed}
=============================================================================
