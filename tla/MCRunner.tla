------------------------------ MODULE MCRunner ------------------------------
(* Instances of Runner for TLC.                                            *)
EXTENDS Runner, TLC

Request(m, p) == [form |-> "request", method |-> m, params |-> p]
Blank   == [form |-> "blank", method |-> "shutdown", params |-> "absent"]
Garbage == [form |-> "garbage", method |-> "shutdown", params |-> "absent"]

(* Two handlers with one in between that is not registered.                *)
ToolAndChannel == {"channel", "tool"}

(* The lifecycle requests, one method and the lines that are no requests.  *)
LifecycleLines == {Request("initialize", "valid"), Request("shutdown", "absent"),
                   Request("tool_call", "valid"), Blank, Garbage}

(* A streaming provider whose result may have no JSON form.                *)
StreamLines == {Request("initialize", "absent"),
                Request("provider_stream_message", "valid"),
                Request("provider_stream_message", "malformed"),
                Request("shutdown", "absent"), Garbage}

(* Every method with every kind of parameters.                             *)
AllRequests == {Request(m, p) : m \in Methods, p \in Params}

MostKinds == Kinds \ {"tool", "http"}
=============================================================================
