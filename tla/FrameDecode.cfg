SPECIFICATION Spec
CONSTANTS
  None = None
  Messages <- MCMessages
  Noise <- MCNoise
  Behind <- MCBehind
INVARIANTS TypeOK ReadsOnlyTheFrame DecodesWhatWasSent CutOnlyLoses
