-------------------------- MODULE MCSourceCommands --------------------------
(***************************************************************************)
(* Values for the constants of SourceCommands: strings of two lengths that *)
(* leave room for their end in a field, and one that does not; structs of  *)
(* one cell and of several, one of them without a zero, and one that is a  *)
(* video profile out of range; a new readBuf of zeros or something else.   *)
(***************************************************************************)
EXTENDS SourceCommands

Short == <<"a">>
Long == <<"b", "b">>
Endless == <<"c", "c", "c">>

MCStrings == {Short, Long, Endless}

Good == <<"v">>
Bad == <<"w">>
Region == <<"r", "nul", "r">>

MCStructs == {Good, Bad, Region}
MCBadProfiles == {Bad}

Plain(name) == [cmd |-> name, arg |-> <<>>]
With(name, data) == [cmd |-> name, arg |-> data]

\* The first command is a join, or one that only a join allows.
First == {With("JOIN", Long), With("CAPTURE_SCREEN", Region)}

\* Behind it come joins with tokens that fit and one that does not, strings that
\* are sent without their end, a field that is sent whole, structs, and a leave.
Middle ==
  {With("JOIN", Short), With("JOIN", Endless), With("RENEW_TOKEN", Short),
   With("RENEW_TOKEN", Endless), With("SET_LOGFILE", Short), With("SET_PARAMETER", Long),
   With("CAPTURE_SCREEN", Region), With("SET_VIDEO_PROFILE", Good),
   With("SET_VIDEO_PROFILE", Bad), Plain("LEAVE_CHANNEL")}

\* The last is one that hears what the others left.
Last == {With("RENEW_TOKEN", Short), With("RENEW_TOKEN", Long), With("SET_LOGFILE", Short)}

MCUsed == <<First, Middle, Middle, Last>>

\* Tokens of two lengths.
Tokens == {With("JOIN", Long), With("RENEW_TOKEN", Short), With("RENEW_TOKEN", Long)}

MCTokens == <<Tokens, Tokens, Tokens>>

MCOther == {"x"}
MCZeros == {"nul"}
=============================================================================
