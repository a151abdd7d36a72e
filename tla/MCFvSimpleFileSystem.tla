------------------------ MODULE MCFvSimpleFileSystem ------------------------
(* Volumes for FvSimpleFileSystem: names that differ in the extension only, *)
(* executables with and without an image, data in a section or in the file. *)
EXTENDS FvSimpleFileSystem, TLC

A == <<"a">>
B == <<"b">>
AEfi == <<"a", "efi">>
NoSections == << >>

Driver == [name |-> A, type |-> "executable", sections |-> "te" :> 2, size |-> 3]
Text == [name |-> A, type |-> "freeform", sections |-> "raw" :> 1, size |-> 2]
Raw == [name |-> B, type |-> "other", sections |-> NoSections, size |-> 1]
NoImage == [name |-> AEfi, type |-> "executable", sections |-> NoSections, size |-> 1]
Freeform == [name |-> AEfi, type |-> "freeform", sections |-> NoSections, size |-> 1]

MCContents == {<<Driver, Text>>, <<Text, Raw, NoImage>>, <<Freeform, Driver>>, << >>}

(* Every path of up to two components, with and without the root before it, *)
(* longer ones with "..", and other separators.                              *)
Parts == {A, B, Dot, DotDot}
Relative == {<<x>> : x \in Parts} \cup {<<x, Sep, y>> : x, y \in Parts}
Longer ==
  {<<Sep, x, Sep, y, Sep, z>> : x \in {A, Dot, DotDot}, y \in {B, DotDot}, z \in {A, Dot, DotDot}}

MCRequests ==
  Relative \cup {<<Sep>> \o p : p \in Relative} \cup Longer \cup
  {<<>>, <<AEfi>>, <<Sep, A, Sep>>, <<Slash, B, Slash, DotDot, Slash, A>>,
   <<Sep, B, Sep, A, Sep, DotDot, Sep, DotDot, Sep, A>>, <<A, Sep, DotDot, Sep, B>>,
   <<Sep, Dot, Sep, Sep, B>>, <<Sep, A, Sep, Sep, Sep, DotDot, Sep, B>>}
=============================================================================
