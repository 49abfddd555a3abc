SPECIFICATION Spec
CONSTANTS
    Importers = {i1, i2, i3}
    NData = 2
    NIndex = 2
    Mixed = {i3}
    None = None
SYMMETRY ImporterSymmetry
INVARIANTS TypeOK OneImporterPerLoad DoneMeansComplete TableRowsLogged
