------------------------------ MODULE MCTracing ------------------------------
(***************************************************************************)
(* Tracing with the stacks of layers that are checked.                       *)
(***************************************************************************)
EXTENDS Tracing

\* Two formatter types; the outermost layer shares one but looks at no span.
OwnTypes    == <<DisableClose(CaptainsLogLayer("text")),
                 DisableRecord(DisableExit(DisableEnter(CaptainsLogLayer("json")))),
                 DisableSpan(CaptainsLogLayer("text"))>>
\* Two layers with the same formatter type.
SharedTypes == <<CaptainsLogLayer("text"), CaptainsLogLayer("text")>>

=============================================================================
