------------------------------- MODULE Routing -------------------------------
(***************************************************************************)
(* The methods of the protocol and the two tables that decide what happens *)
(* to a request that is not "initialize" or "shutdown": the switch of      *)
(* compositeDispatch (extension/run.go), which picks a handler, and the    *)
(* dispatch function of each extension kind, which decodes the parameters  *)
(* and calls it.  The two are maintained by hand in different files.       *)
(***************************************************************************)

Kinds == {"channel", "provider", "tool", "tts", "stt", "hook", "http", "service"}

(* The order in which run.go visits the handlers, to initialize them and   *)
(* to shut them down.                                                      *)
Rank == [channel |-> 1, provider |-> 2, tool |-> 3, tts |-> 4,
         stt |-> 5, hook |-> 6, http |-> 7, service |-> 8]

ChannelMethods  == {"channel_send", "channel_typing", "channel_reaction_add",
                    "channel_reaction_remove", "prompt_user",
                    "channel_capabilities"}
ProviderMethods == {"provider_create_message", "provider_stream_message",
                    "provider_capabilities"}
TTSMethods      == {"tts_synthesize", "tts_voices"}
STTMethods      == {"stt_transcribe", "stt_models"}
ServiceMethods  == {"service_start", "service_health", "service_stop"}
VoiceMethods    == {"voice_join", "voice_leave", "voice_stream"}

Methods == ChannelMethods \cup ProviderMethods \cup TTSMethods \cup STTMethods
             \cup ServiceMethods \cup VoiceMethods
             \cup {"initialize", "shutdown", "tool_call", "hook_event", "http_request"}

(* protocol.ErrCode*, and "ok" for a result.                               *)
Codes == {"ok", "ParseError", "MethodNotFound", "InvalidParams", "Internal",
          "NotReady", "ToolFailed", "ProviderFailed", "StreamFailed",
          "TTSFailed", "STTFailed", "HookFailed", "HTTPFailed", "ServiceFailed"}

(* What a dispatch function does with a method: whether json.Unmarshal of  *)
(* absent parameters is an error ("required"), is skipped ("optional") or  *)
(* parameters are never looked at ("ignored"), and the code it sends when  *)
(* the handler returns an error.                                           *)
Entry(rule, code) == [params |-> rule, fail |-> code]

DispatchChannel == [m \in ChannelMethods |->
  Entry(IF m = "channel_capabilities" THEN "optional" ELSE "required", "Internal")]
DispatchProvider == [m \in ProviderMethods |->
  Entry(IF m = "provider_capabilities" THEN "optional" ELSE "required",
        IF m = "provider_stream_message" THEN "StreamFailed" ELSE "ProviderFailed")]
DispatchTool == [m \in {"tool_call"} |-> Entry("required", "ToolFailed")]
DispatchTTS  == [m \in TTSMethods |->
  Entry(IF m = "tts_voices" THEN "ignored" ELSE "required", "TTSFailed")]
DispatchSTT  == [m \in STTMethods |->
  Entry(IF m = "stt_models" THEN "ignored" ELSE "required", "STTFailed")]
DispatchHook == [m \in {"hook_event"} |-> Entry("required", "HookFailed")]
DispatchHTTP == [m \in {"http_request"} |-> Entry("required", "HTTPFailed")]
DispatchService == [m \in ServiceMethods |-> Entry("required", "ServiceFailed")]

Dispatch == [channel |-> DispatchChannel, provider |-> DispatchProvider,
             tool |-> DispatchTool, tts |-> DispatchTTS, stt |-> DispatchSTT,
             hook |-> DispatchHook, http |-> DispatchHTTP,
             service |-> DispatchService]

(* Slip, used by no behaviour: absent parameters are never an error.       *)
DecodesAbsent(rule, params) ==
  params \in {"valid", "absent"} \/ rule = "ignored"

(* json.Unmarshal(nil) fails like any malformed text; JSON null is valid.  *)
Decodes(rule, params) ==
  \/ params = "valid"
  \/ params = "absent" /\ rule = "optional"
  \/ rule = "ignored"

(* The methods whose payload type (protocol/*.go) has a field that is not   *)
(* omitempty, those that have no payload type, and the parameters that suit *)
(* a method by these declarations.                                          *)
NeedsParams == (ChannelMethods \ {"channel_capabilities"})
                 \cup (ProviderMethods \ {"provider_capabilities"})
                 \cup {"tts_synthesize", "stt_transcribe"} \cup ServiceMethods
                 \cup {"tool_call", "hook_event", "http_request"}
NoPayload == {"tts_voices", "stt_models"}
Suits(m, params) ==
  \/ params = "valid" \/ m \in NoPayload
  \/ params = "absent" /\ m \notin NeedsParams

(* Slip, used by no behaviour: a method is missing from the switch.        *)
CaseIncomplete(k, m) ==
  \/ k = "provider" /\ m \in ProviderMethods
  \/ k = "stt"      /\ m \in {"stt_transcribe", "stt_models"}
  \/ k = "service"  /\ m \in {"service_start", "service_health"}

(* The case of compositeDispatch that names a method, and its handler.     *)
Case(k, m) ==
  \/ k = "channel"  /\ m \in {"channel_send", "channel_typing",
                              "channel_reaction_add", "channel_reaction_remove",
                              "prompt_user", "channel_capabilities"}
  \/ k = "provider" /\ m \in {"provider_create_message",
                              "provider_stream_message", "provider_capabilities"}
  \/ k = "tool"     /\ m = "tool_call"
  \/ k = "tts"      /\ m \in {"tts_synthesize", "tts_voices"}
  \/ k = "stt"      /\ m \in {"stt_transcribe", "stt_models"}
  \/ k = "hook"     /\ m = "hook_event"
  \/ k = "http"     /\ m = "http_request"
  \/ k = "service"  /\ m \in {"service_start", "service_health", "service_stop"}
==============================================================================
