\* The claim of bluebird-kiosk.service:9-10.
SPECIFICATION Spec
INVARIANT SeatExclusive
