----------------------------- MODULE MCHostTools -----------------------------
EXTENDS HostTools, Sequences

\* 'a', the comma of the help text, and the newline; strings of up to four bytes.
MCEnvs == UNION {[1..n -> {97, 44, 10}] : n \in 1..4}

\* Strings of no, one (not declared as ASCII) and two bytes, the end mark, a letter.
MCFrus == UNION {[1..n -> {192, 1, 194, 193, 97}] : n \in 3..5}

\* A negative length, none, one that ends within a word, and one beyond a page.
MCBlockLengths == {-8, 0, 6, 8, 4098}
=============================================================================
