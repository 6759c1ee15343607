CONSTANT Inbound <- MCInbound
SPECIFICATION Spec
INVARIANTS
    TypeOK
    OutcomesAnnounced
    OnePaymentPerReservation
PROPERTIES
    CancelRefunds
