------------------------------ MODULE MCCardIO ------------------------------
(* Instances of CardIO for TLC: the data the runs choose from.             *)
EXTENDS CardIO

\* transport with fixed and with free access bits; A|B read, B writes and manages
MCConfigs == {Uniform(0, 0), Uniform(0, 1), Uniform(4, 3)}
MCFactoryConfigs == {Uniform(0, 0), Uniform(0, 1)}

T(kA, kB, cfg) == [keyA |-> kA, keyB |-> kB, access |-> cfg]

\* a factory card, and one with its own keys managed by key B
FactoryCard == {FactoryTrailer}
KeyBCard == {T(FactoryKey, FactoryKey, Uniform(4, 3))}

\* its sectors read like an image of zeros
BlankCard == {T(FactoryKey, ZeroKey, Uniform(0, 0))}

NoTrailers == {}
=============================================================================
