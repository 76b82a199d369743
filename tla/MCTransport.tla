----------------------------- MODULE MCTransport -----------------------------
(* Instance of Transport for TLC: a request loop and one goroutine of a    *)
(* handler, which writes through the Emitter.                              *)
EXTENDS Transport, TLC

CONSTANTS loop, emitter

TwoWriters == {loop, emitter}
==============================================================================
