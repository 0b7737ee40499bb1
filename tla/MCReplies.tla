------------------------------ MODULE MCReplies ------------------------------
(* Small instances of Replies for TLC. *)
EXTENDS ReplyClaims

T(numbers, word) == [numbers |-> numbers, word |-> word]

\* 1 is an option and an estimate, 2 a loom named before something else.
MCOptions == <<"electrical", "other">>
MCTicketable == {"electrical"}
MCTexts == {T(<<1>>, "none"), T(<< >>, "label"), T(<<2, 1>>, "none"),
            T(<< >>, "pass"), T(<< >>, "noise")}
=============================================================================
