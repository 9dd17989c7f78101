------------------------------ MODULE MCSession ------------------------------
(***************************************************************************)
(* Session for TLC.  The configurations differ in what is allowed to       *)
(* happen: MCSession.cfg has a ring of one frame, which every push          *)
(* overflows, responses that are thrown away, and a question to claude;    *)
(* MCSessionLive.cfg has fairness, event handlers of an idle R, images, a  *)
(* sandboxed call and no collisions; the others are the runs behind the    *)
(* findings.                                                               *)
(***************************************************************************)
EXTENDS Session

=============================================================================
