------------------------------ MODULE MCShell ------------------------------
(***************************************************************************)
(* Commands that succeed and that fail in each possible way: a second file *)
(* that does not fit, names that are in use or unknown, too few arguments, *)
(* sizes out of range, more words than MAX_ARGS, and a heap too full for   *)
(* the words themselves.  Words are one character long.                    *)
(***************************************************************************)
EXTENDS Shell

Word(t) == [text |-> t, len |-> 1]
Size(d) == Word(<<Zero + d>>)
MCLines == {<<Word("create"), Word("a"), Size(1)>>, <<Word("create"), Word("b"), Size(2)>>,
            <<Word("create"), Word("b"), Size(0)>>, <<Word("create"), Word("a"), Size(9), Word("x")>>,
            <<Word("delete"), Word("a")>>, <<Word("delete")>>,
            <<Word("ls")>>, <<Word("exit")>>}

(***************************************************************************)
(* Numbers of every value of a small word: printf prints the usual         *)
(* notation, for the least signed number and at the largest unsigned one   *)
(* too; the divisor never wraps; and str_to_int reads it back.             *)
(***************************************************************************)
Unsigned == 0 .. (WORD - 1)
ASSUME PrintedRight ==
    \A v \in Unsigned :
        /\ Denotes(print_u(v), v) /\ print_llu(v) = print_u(v)
        /\ Value(print_x(v, 3), 16) = v
        /\ LET s == print_d(Signed(v))
           IN  IF Signed(v) < 0 THEN s[1] = Minus /\ Denotes(Tail(s), -Signed(v))
               ELSE Denotes(s, v) /\ str_to_int(s) = v /\ str_to_int(s \o <<97>>) = v

=============================================================================
