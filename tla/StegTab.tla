------------------------------ MODULE StegTab -------------------------------
(***************************************************************************)
(* The steganography tab of the client (client/src/mainwindow.cpp) over    *)
(* embed() and extract(): the message box serves both buttons, the input   *)
(* and output paths may be the same file, and saving may fail.             *)
(***************************************************************************)
EXTENDS Steganography, SequencesExt

CONSTANTS
    Covers,    \* the pictures there are at first, as pixel bytes
    Messages,  \* what the user types
    NoText,    \* bytes that are not UTF-8
    Replaced,  \* the bytes of U+FFFD, which the message box shows for them
    Paths,     \* the files a picture can be in
    NoPicture  \* a path with no picture that can be loaded

ASSUME TabAssumption ==
    /\ Covers \subseteq Seq(Pixel) /\ NoPicture \notin Seq(Pixel)
    /\ \A m \in Messages : m \in Seq(Char \ NoText) /\ Len(m) < Power(2, LenBits)
    /\ NoText \subseteq Char /\ Replaced \in Seq(Char \ NoText)

\* No picture holds so much that what the box shows for it is too long for the
\* length field: 2^32 bytes of text would take a picture of 11 gigabytes.
ASSUME RoomAssumption ==
    /\ Replaced # <<>>
    /\ \A c \in Covers : capacity(Len(c)) * Len(Replaced) < Power(2, LenBits)

VARIABLES
    files,   \* the picture under each path
    stegMsg, \* the message box
    status,  \* the outcome of the last click
    cover,   \* the picture each file was made from
    hidden   \* <<m>> when m was embedded last in the picture of a file, else <<>>

vars == <<files, stegMsg, status, cover, hidden>>

Init ==
    /\ files \in [Paths -> Covers \cup {NoPicture}]
    /\ stegMsg = <<>> /\ status = "none"
    /\ cover = files
    /\ hidden = [p \in Paths |-> <<>>]

Type(m) == stegMsg' = m /\ UNCHANGED <<files, status, cover, hidden>>

Refuse(why) == status' = why /\ UNCHANGED <<files, stegMsg, cover, hidden>>

\* A save that fails leaves the old file or none that can be loaded.
Save(in, out) ==
    \/ /\ status' = "embedded"
       /\ files' = [files EXCEPT ![out] = Embedded(files[in], stegMsg)]
       /\ cover' = [cover EXCEPT ![out] = cover[in]]
       /\ hidden' = [hidden EXCEPT ![out] = <<stegMsg>>]
       /\ UNCHANGED stegMsg
    \/ /\ status' = "not saved"
       /\ \/ UNCHANGED <<files, cover, hidden>>
          \/ /\ files' = [files EXCEPT ![out] = NoPicture]
             /\ cover' = [cover EXCEPT ![out] = NoPicture]
             /\ hidden' = [hidden EXCEPT ![out] = <<>>]
       /\ UNCHANGED stegMsg

onStegEmbed(in, out) ==
    IF files[in] = NoPicture THEN Refuse("not loaded")
    ELSE IF ~Fits(files[in], stegMsg) THEN Refuse("too small")
    ELSE Save(in, out)

\* QString::fromStdString and toPlainText around the message box.
Shown(m) == FlattenSeq([i \in 1..Len(m) |-> IF m[i] \in NoText THEN Replaced ELSE <<m[i]>>])

onStegExtract(in) ==
    IF files[in] = NoPicture THEN Refuse("not loaded")
    ELSE /\ stegMsg' = Shown(extract(files[in])) /\ status' = "extracted"
         /\ UNCHANGED <<files, cover, hidden>>

Next ==
    \/ \E m \in Messages : Type(m)
    \/ \E in, out \in Paths : onStegEmbed(in, out)
    \/ \E in \in Paths : onStegExtract(in)

Spec == Init /\ [][Next]_vars

-----------------------------------------------------------------------------
(* Properties.                                                             *)

\* The message lies where a uint32_t can index it, in the first 4 GiB of a picture.
InRange(m) == LenBits + Len(m) * CharBits <= IndexRange

\* Whatever was hidden in the picture before, whichever way the file came
\* about, what a file gives back is the message embedded into it last, if that
\* lies in the range of extract()'s index (core/src/steganography.cpp:42).
LastMessageIsRead ==
    \A p \in Paths : hidden[p] # <<>> /\ InRange(hidden[p][1]) =>
        extract(files[p]) = hidden[p][1]

\* However often a picture is embedded into, only low bits differ from the
\* picture it was made from.
OnlyLowBitsChange ==
    \A p \in Paths : files[p] # NoPicture =>
        /\ Len(files[p]) = Len(cover[p])
        /\ \A i \in 1..Len(files[p]) : files[p][i] \div 2 = cover[p][i] \div 2

\* A message is refused as too long exactly when it is longer than capacity()
\* says, for a picture with room for the header (core/include/steganography.h:34).
CapacityIsExact ==
    [][\A in, out \in Paths :
         files[in] # NoPicture /\ Len(files[in]) >= LenBits /\ onStegEmbed(in, out) =>
            (status' = "too small" <=> Len(stegMsg) > capacity(Len(files[in])))]_vars
=============================================================================
