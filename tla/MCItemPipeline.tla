--------------------------- MODULE MCItemPipeline ---------------------------
(* Two recordings that share a file name; the second item downloads its    *)
(* recording even when the library has it.                                 *)
EXTENDS ItemPipeline

PipelineNameOf == [s \in {"a", "b"} |-> "intro"]
=============================================================================
