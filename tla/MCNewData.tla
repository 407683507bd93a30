----------------------------- MODULE MCNewData ------------------------------
(***************************************************************************)
(* Instances of NewData for TLC.                                           *)
(***************************************************************************)
EXTENDS NewData

\* Two new commands of three blocks in two ranges and of two blocks; one
\* command; none.
MCLists == {<<[at |-> 0, ends |-> <<2, 3>>], [at |-> 3, ends |-> <<1, 2>>]>>,
            <<[at |-> 0, ends |-> <<2>>]>>,
            <<>>}

\* Pieces smaller and larger than a command, exactly the data, too much, too little.
Plain == {<<5>>, <<2, 3>>, <<4, 1>>, <<1, 1, 1, 1, 1, 1>>, <<4>>, <<1>>, <<>>}

\* A compressed piece may decode to nothing.
Compressed == Plain \cup {<<0, 5>>, <<2, 0, 3>>, <<4, 1, 0>>, <<3, 0, 0>>}

MCStreams == {[brotli |-> FALSE, pieces |-> p] : p \in Plain}
                \cup {[brotli |-> TRUE, pieces |-> p] : p \in Compressed}
=============================================================================
