---------------------------- MODULE MCBlockImg ----------------------------
(***************************************************************************)
(* Transfer lists over a partition of four blocks, for model checking      *)
(* BlockImg.  Blocks 0..3 hold "a", "b", "c", "d".                         *)
(***************************************************************************)
EXTENDS BlockImg, TLC

MCBlock == 0 .. 3
MCContent == {"a", "b", "c", "d", "x", "y", "0", "#"}
MCSource == (0 :> "a") @@ (1 :> "b") @@ (2 :> "c") @@ (3 :> "d")

-----------------------------------------------------------------------------
\* Constructors for source slots and commands.
B(n) == [kind |-> "blk", n |-> n, id |-> NoStash]
S(i, n) == [kind |-> "stash", n |-> n, id |-> i]

Hash(src) == [i \in DOMAIN src |-> SlotHash(src[i])]

Cmd6(op, tgt, out, src, id, at) ==
    [op |-> op, tgt |-> tgt, out |-> out, src |-> src, id |-> id, at |-> at]

Move(tgt, src) == Cmd6("move", tgt, Hash(src), src, NoStash, 0)
Diff(tgt, src, out) == Cmd6("diff", tgt, out, src, NoStash, 0)
Stash(src) == Cmd6("stash", <<>>, <<>>, src, Hash(src), 0)
Free(id) == Cmd6("free", <<>>, <<>>, <<>>, id, 0)
ZeroOut(tgt) == Cmd6("zero", tgt, [i \in DOMAIN tgt |-> "0"], <<>>, NoStash, 0)
Erase(tgt) == Cmd6("erase", tgt, [i \in DOMAIN tgt |-> "#"], <<>>, NoStash, 0)
New(tgt, out, at) == Cmd6("new", tgt, out, <<>>, NoStash, at)

List(cmds, new) == [cmds |-> cmds, new |-> new, found |-> MCSource, script |-> "verify",
                    lossy |-> FALSE]

-----------------------------------------------------------------------------
\* Two blocks exchanged through an explicit stash.
Swap == List(<<Stash(<<B(0)>>), Move(<<0>>, <<B(1)>>),
               Move(<<1>>, <<S(<<"a">>, 1)>>), Free(<<"a">>)>>, <<>>)

\* Overlapping moves and patches, which stash their source implicitly.
Shift == List(<<Move(<<1, 2>>, <<B(0), B(1)>>), Diff(<<0>>, <<B(0)>>, <<"x">>)>>, <<>>)

\* An overlapping move that also reads a stash, between commands that read
\* nothing from the partition.
Mixed == List(<<ZeroOut(<<3>>), Stash(<<B(2)>>),
                Move(<<2, 1>>, <<B(1), S(<<"c">>, 1)>>), Free(<<"c">>),
                New(<<0>>, <<"y">>, 0)>>, <<"y">>)

\* Two stashes feeding one patch.
TwoStashes == List(<<Stash(<<B(0)>>), Stash(<<B(1)>>),
                     Diff(<<0, 1>>, <<B(2)>>, <<"x", "y">>), Erase(<<3>>),
                     Move(<<2>>, <<S(<<"b">>, 1)>>), Free(<<"b">>), Free(<<"a">>)>>, <<>>)

\* A full update: nothing is read from the partition.
Full == List(<<Erase(<<3>>), ZeroOut(<<2>>), New(<<0>>, <<"x">>, 0),
               New(<<1>>, <<"y">>, 1)>>, <<"x", "y">>)

\* New data on both sides of a command that moves last_command forward.
NewAroundStash == List(<<New(<<0>>, <<"x">>, 0), Stash(<<B(2)>>), New(<<2>>, <<"y">>, 1),
                         Move(<<1>>, <<S(<<"c">>, 1)>>), Free(<<"c">>)>>, <<"x", "y">>)

HandWritten == {Swap, Shift, Mixed, TwoStashes}

-----------------------------------------------------------------------------
\* Every well-formed list of up to three of these commands in which the ids are unique
\* and new data comes last.
Shapes ==
    {Stash(<<B(b)>>) : b \in 0 .. 1} \cup {Free(<<MCSource[b]>>) : b \in 0 .. 1}
    \cup {Move(<<t>>, <<B(b)>>) : t \in 0 .. 2, b \in 0 .. 1}
    \cup {Move(<<t>>, <<S(<<MCSource[b]>>, 1)>>) : t \in 0 .. 1, b \in 0 .. 1}
    \cup {Move(<<1, 2>>, <<B(0), B(1)>>), Move(<<0, 1>>, <<B(1), B(2)>>),
          Diff(<<0>>, <<B(0)>>, <<"x">>), Diff(<<2, 1>>, <<B(1), S(<<"a">>, 1)>>, <<"x", "y">>),
          ZeroOut(<<2>>), New(<<1>>, <<"y">>, 0)}

Extend(L) ==
    {l \in {List(Append(p.cmds, c), <<"y">>) : p \in L, c \in Shapes} :
        WellFormed(l) /\ UniqueIds(l) /\ NewDataLast(l)}

Lists1 == Extend({List(<<>>, <<>>)})
Lists2 == Extend(Lists1)
Lists3 == Extend(Lists2)

\* A partition that is not the one the package was made for.
Damaged(L) == {[l EXCEPT !.found[0] = "d"] : l \in L}
                 \cup {[l EXCEPT !.found[1] = "#"] : l \in L}

Guarded(L, s) == {[l EXCEPT !.script = s] : l \in L}

Lossy(L) == {[l EXCEPT !.lossy = TRUE] : l \in L}

Incremental == HandWritten \cup Lists1 \cup Lists2 \cup Lists3
                  \cup Damaged(HandWritten \cup Lists1 \cup Lists2)
                  \cup Guarded(Damaged({l \in Lists1 : ~Stashes(l.cmds[1])}), "update")

\* Lists under losses of power: without an overlap also with the script's shortcut.
Sequential == Lossy(Guarded({Swap, TwoStashes, Full}, "shortcut") \cup {Shift, Mixed})

-----------------------------------------------------------------------------
MCStashIds == {<<"a">>, <<"b">>, <<"c">>, <<"a", "b">>, <<"b", "c">>, <<"b", "a">>}

\* Values for the .cfg files.
NoIndex == {-1}
MCLists == Incremental \cup Sequential
OnlyNewAroundStash == {NewAroundStash}
=============================================================================
