----------------------------- MODULE MCNavService -----------------------------
EXTENDS NavService
MCNone == <<>>
MCAirports == <<[kind |-> "A", ident |-> "a1"]>>
\* A fix and a VOR may share an ident, and the server is told idents alone.
MCPoints == <<[kind |-> "W", ident |-> "x"], [kind |-> "V", ident |-> "x"]>>
MCMorePoints == MCPoints \o <<[kind |-> "V", ident |-> "y"]>>
================================================================================
