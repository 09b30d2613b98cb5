\* Years of four days, the second of which is 29 February.
SPECIFICATION ZakatSpec
CONSTANTS
    Years = 3
    LeapYears = {2}
    YearDays = 4
    LeapDay = 2
    Window = 1
    Grams = 2
    Prices <- SomePrices
    Bases <- SomeBases
PROPERTIES AskedWhileOwed PaysTheYearAsked
