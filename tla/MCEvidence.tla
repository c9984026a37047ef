----------------------------- MODULE MCEvidence -----------------------------
(***************************************************************************)
(* What the commands of Evidence print: a line, and the whole of another   *)
(* capture, as printing or comparing captures does.                        *)
(***************************************************************************)
EXTENDS Evidence

Another == << [ part |-> "another" ] >>
MCPrintable == { << Line >> \o Another \o << HASH_PREFIX, Sha256(Another) >>,
                 Another \o << HASH_PREFIX, Sha256(Another), Newline >> }

=============================================================================
