--------------------------------- MODULE MCBoard ---------------------------------
(***************************************************************************)
(* The parts of a card that share no variable, side by side.  A behaviour  *)
(* moves the one part chosen in its first state, so that the run explores  *)
(* the sum of their state spaces and not the product.                      *)
(***************************************************************************)
EXTENDS TL880Gpio, TL880I2c, TL880Vpx, TL880Memory, TL880Callbacks, TL880Copy,
        TL880Audio, TL880Fb

AllCards  == {"MDP100", "MDP110", "MDP120", "WINTV", "HIPIX"}
SomeLines == {2, 8}

Chip(n, b, k, a) == [name |-> n, bus |-> b, kind |-> k, at43 |-> a]
SomeChips ==
  {Chip("msp", 0, "msp", FALSE), Chip("tda", 0, "tvaudio", FALSE), Chip("msp2", 1, "msp", FALSE),
   Chip("tuner", 0, "tuner", FALSE), Chip("ir", 1, "tuner", FALSE),
   Chip("decoder", 0, "tuner", TRUE)}

\* Sizes that fill half a block of two bytes, a block, one and a half, and three.
SmallSizes == {0, 1, 2, 3, 6}

VARIABLE part
otherVars == <<copyVars, audioVars, fbVars>>
boardVars == <<part, gpioVars, i2cVars, vpxVars, vars, cbVars, otherVars>>

Parts == {"gpio", "i2c", "vpx", "memory", "callbacks", "copy", "audio", "fb"}

BoardInit ==
  /\ part \in Parts
  /\ GpioInit /\ I2cInit /\ VpxInit /\ Init /\ CbInit /\ CopyInit /\ AudioInit /\ FbInit
  /\ part # "gpio" => card = "MDP120"
  /\ part # "audio" => kind = "MDP120"
  /\ part # "copy" => size = 2
  /\ part # "fb" => video = 0 /\ mbox = <<0, 0>>

BoardNext ==
  /\ UNCHANGED part
  /\ \/ part = "gpio" /\ GpioNext /\ UNCHANGED <<i2cVars, vpxVars, vars, cbVars, otherVars>>
     \/ part = "i2c" /\ I2cNext /\ UNCHANGED <<gpioVars, vpxVars, vars, cbVars, otherVars>>
     \/ part = "vpx" /\ VpxNext /\ UNCHANGED <<gpioVars, i2cVars, vars, cbVars, otherVars>>
     \/ part = "memory" /\ Next /\ UNCHANGED <<gpioVars, i2cVars, vpxVars, cbVars, otherVars>>
     \/ part = "callbacks" /\ CbNext /\ UNCHANGED <<gpioVars, i2cVars, vpxVars, vars, otherVars>>
     \/ /\ UNCHANGED <<gpioVars, i2cVars, vpxVars, vars, cbVars>>
        /\ \/ part = "copy" /\ CopyNext /\ UNCHANGED <<audioVars, fbVars>>
           \/ part = "audio" /\ AudioNext /\ UNCHANGED <<copyVars, fbVars>>
           \/ part = "fb" /\ FbNext /\ UNCHANGED <<copyVars, audioVars>>

BoardSpec == BoardInit /\ [][BoardNext]_boardVars

\* The part that moves is well typed.
BoardTypeOK ==
  /\ part \in Parts
  /\ part = "gpio" => GpioTypeOK
  /\ part = "i2c" => I2cTypeOK
  /\ part = "vpx" => VpxTypeOK
  /\ part = "memory" => TypeOK
  /\ part = "callbacks" => CbTypeOK
  /\ part = "copy" => CopyTypeOK
  /\ part = "audio" => AudioTypeOK
  /\ part = "fb" => FbTypeOK

\* The decoder alone.
DecoderInit == BoardInit /\ part = "vpx"
DecoderSpec == DecoderInit /\ [][BoardNext]_boardVars
===============================================================================
