------------------------ MODULE MCNapiCompletionQueue ------------------------
(* The instance of NapiCompletionQueue for TLC: two dispatchers, as model    *)
(* values given by the configuration.                                        *)
EXTENDS NapiCompletionQueue
=============================================================================
