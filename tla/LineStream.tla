----------------------------- MODULE LineStream -----------------------------
(***************************************************************************)
(* The extension's standard output as the host sees it: completed lines    *)
(* and the unterminated text behind them.  This is what a mutex-protected  *)
(* writeLine (jsonrpc/transport.go) promises its callers: a message either *)
(* ends the current line, or its write fails and leaves none, a truncated  *)
(* part or all of it behind, without the newline.  A line is a sequence of *)
(* fragments, because a failed write leaves text that the next successful  *)
(* one ends up sharing its line with.                                      *)
(***************************************************************************)
EXTENDS Naturals, Sequences

CONSTANTS Messages,       \* what callers write
          WriterFaults    \* may the underlying io.Writer return an error?

VARIABLES done,           \* the lines ended by a newline, oldest first
          tail            \* the fragments written since the last newline

lineVars == <<done, tail>>

Fragment == [msg : Messages, whole : BOOLEAN]
Whole(m) == [msg |-> m, whole |-> TRUE]
Part(m)  == [msg |-> m, whole |-> FALSE]

(* A line the host can decode: the text of exactly one message.            *)
WellFormed(line) == Len(line) = 1 /\ line[1].whole

LineStreamTypeOK ==
  /\ done \in Seq(Seq(Fragment))
  /\ tail \in Seq(Fragment)

WriteOk(m) ==
  /\ done' = Append(done, Append(tail, Whole(m)))
  /\ tail' = << >>

WriteFails(m) ==
  /\ WriterFaults
  /\ tail' \in {tail, Append(tail, Part(m)), Append(tail, Whole(m))}
  /\ UNCHANGED done

LineStreamInit == done = << >> /\ tail = << >>

LineStreamNext == \E m \in Messages : WriteOk(m) \/ WriteFails(m)

LineStreamSpec == LineStreamInit /\ [][LineStreamNext]_lineVars
=============================================================================
