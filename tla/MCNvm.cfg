SPECIFICATION Spec
CONSTANTS OtherKeys = {uri, psk}
          MaxRequest = 3
INVARIANTS TypeOK InitComplete RequestsKept
