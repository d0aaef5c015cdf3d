---------------------------- MODULE MCPbiRequest ----------------------------
(* PbiRequest with areas of one page, or of a full window for the text.    *)
EXTENDS PbiRequest, TLC

MCSize == ("buffer" :> 1) @@ ("name" :> 1) @@ ("text" :> 4)
=============================================================================
