SPECIFICATION ExchangeSpec
CONSTANTS
  IDLE = IDLE
  Exchanged <- MCExchanged
INVARIANTS DeclaredLength FieldsArrive ColorAsMeant
