---------------------------- MODULE MCApplyPatch ----------------------------
(***************************************************************************)
(* Instances of ApplyPatch for TLC: a source of two pieces and a target of *)
(* three on partitions of three or four pieces.                            *)
(***************************************************************************)
EXTENDS ApplyPatch

Old == <<"s", "s">>
New == <<"t", "s", "t">>
Other == <<"o", "o">>

PieceDef == {"s", "t", "o", "j"}

Patches == <<[src |-> Other, out |-> New], [src |-> Old, out |-> New]>>

\* The partition is patched in place; its name lists the source and the target.
InPlace(cache) ==
    [src |-> "boot", tgt |-> "boot", srcNames |-> {Old, New}, tgtNames |-> {Old, New},
     patches |-> Patches, image |-> NoFile, target |-> New, cache |-> cache]

\* The recovery image is made from the boot image, as install-recovery.sh does.
FromBoot(names) ==
    [src |-> "boot", tgt |-> "recovery", srcNames |-> {Old}, tgtNames |-> names,
     patches |-> Patches, image |-> NoFile, target |-> New, cache |-> 8]

BadPatches == {<<[src |-> Old, out |-> Other]>>, <<[src |-> Old, out |-> NoFile]>>}

FlashOf(img) == [src |-> "boot", tgt |-> "boot", srcNames |-> {}, tgtNames |-> {},
                 patches |-> <<>>, image |-> img, target |-> New, cache |-> 8]

InstallsDef ==
    {InPlace(8), InPlace(6), InPlace(3), FromBoot({}), FromBoot({New}),
     FlashOf(New), FlashOf(Other), FlashOf(NoFile)}
       \cup {[InPlace(8) EXCEPT !.patches = p] : p \in BadPatches}

StartsDef ==
    [parts : {[boot |-> Old \o <<"o">>, recovery |-> r] : r \in {Other \o <<"j", "j">>, New \o <<"j">>}},
     saved : {NoFile, Old, Other \o <<"o">>}, files : {{}, {1, 2, 3}}]
    \cup [parts : {[boot |-> b, recovery |-> Other \o <<"j", "j">>] : b \in {<<"j", "s", "o">>, New}},
          saved : {NoFile, <<"s">>}, files : {{1, 2}}]

FileSizeDef == [f \in 1 .. 3 |-> IF f = 1 THEN 1 ELSE 2]

=============================================================================
