------------------------------ MODULE MCLogMirror ------------------------------
(* LogMirror for TLC: one message of each kind, and a second plain one.        *)
EXTENDS LogMirror, TLC

CONSTANTS main, worker, flush, miss, err, overrun, info

MCThreads  == {main, worker}
MCMessages == {flush, miss, err, overrun, info}
MCKind     == (flush :> "flush") @@ (miss :> "optional") @@ (err :> "script")
                @@ (overrun :> "plain") @@ (info :> "plain")
================================================================================
