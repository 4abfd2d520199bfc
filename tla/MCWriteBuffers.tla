--------------------------- MODULE MCWriteBuffers ---------------------------
(***************************************************************************)
(* A small instance of WriteBuffers.  Frames have two rows of four inputs. *)
(***************************************************************************)
EXTENDS WriteBuffers

FourInputs == 1 .. 4

NotReceived == <<0, 0, 0, 0>>

\* Frames in which one input deviates, none was received, one input deviates
\* in each row, and half of the inputs do in one row while the other is missing.
FourFrames ==
  <<[rows |-> <<<<1, 1, 1, 1>>, <<1, 1, 1, 3>>>>, received |-> {0, 1}],
    [rows |-> <<NotReceived, NotReceived>>, received |-> {}],
    [rows |-> <<<<1, 5, 1, 1>>, <<2, 2, 2, 0>>>>, received |-> {0, 1}],
    [rows |-> <<<<1, 1, 4, 4>>, NotReceived>>, received |-> {0}]>>

\* The assumption of AverageOfAllFrames, for this instance.
ASSUME UnitsAssumption == ExactUnits

=============================================================================
