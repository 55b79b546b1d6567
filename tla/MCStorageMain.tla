--------------------------- MODULE MCStorageMain ---------------------------
(***************************************************************************)
(* StorageMain with all texts of up to MaxText delimiters and words.       *)
(***************************************************************************)
EXTENDS StorageMain

CONSTANTS
    Other,          \* a word that is no command, and an address without port
    MaxText

MCTexts ==
    {t \in UNION {[1 .. n -> {Delim, Quit, Add, Other}] : n \in 0 .. MaxText} :
        \A k \in 1 .. Len(t) - 1 : t[k] = Delim \/ t[k + 1] = Delim}
=============================================================================
