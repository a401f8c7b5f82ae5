----------------------------- MODULE MCBuilder ------------------------------
(* Messages with names that are suffixes of each other.                    *)
EXTENDS MessageBuilder

OneQuestion == {<<NameOf(<<"a", "b">>), Data>>}
ThreeRecords ==
    {<<NameOf(<<"b">>), Data>>, <<NameOf(<<"b", "a", "b">>), Data>>,
     <<NameOf(<<"a", "b">>), Data, NameOf(<<"c", "a", "b">>)>>}
=============================================================================
